---- MODULE Spec2Model ----
(***************************************************************************)
(* mongolify: schema introspection, the override engine, the JSON Schema   *)
(* emitter and the cache registry that sits in front of them.              *)
(*                                                                         *)
(* Conventions of the model                                                *)
(*   - a JavaScript object whose key order is observable (Object.entries)  *)
(*     is a sequence of [k, v] pairs with distinct keys, in insertion      *)
(*     order;                                                              *)
(*   - a Rule is a record that holds exactly the properties that are set   *)
(*     on the JavaScript object (an absent property is an absent field);   *)
(*   - a dotted path "address.street" is the sequence of its segments,     *)
(*     so path.split('.') and the `${prefix}.${k}` join are the sequence   *)
(*     itself and its concatenation.                                       *)
(***************************************************************************)
EXTENDS Integers, Sequences, FiniteSets, TLC

VARIABLES
    ruleTreeCache,      \* cacheRegistry: WeakMap schema -> RuleTree
    jsonSchemaCache,    \* cacheRegistry: schema (or "null") -> Map overrideKey -> JSON Schema
    ajvValidatorCache,  \* cacheRegistry: schema (or "null") -> Map overrideKey -> compiled validator
    firstTree,          \* history: the tree the first introspection of a schema produced
    compiled,           \* history: identities of the trees compileRulesFromMongooseSchema returned, per schema
    nextId,             \* allocator of object identities
    walks,              \* history: times getOrSetRuleTree had a schema's eachPath walked
    calls,              \* number of API calls made so far
    last,               \* the last API call: its arguments and what it returned
    pc,                 \* position of the pure-function harnesses
    inp,                \* input of the pure-function harnesses
    res                 \* result of the pure-function harnesses

vars == <<ruleTreeCache, jsonSchemaCache, ajvValidatorCache, firstTree, compiled,
          nextId, walks, calls, last, pc, inp, res>>

-----------------------------------------------------------------------------
(* Insertion-ordered JavaScript objects *)

KeySeq(m) == [i \in 1..Len(m) |-> m[i].k]

KeySet(m) == {m[i].k : i \in 1..Len(m)}

Has(m, key) == key \in KeySet(m)

Get(m, key) == m[CHOOSE i \in 1..Len(m) : m[i].k = key].v

\* obj[key] = value: an existing key keeps its position, a new key goes last
Put(m, key, value) ==
    IF Has(m, key)
    THEN [i \in 1..Len(m) |-> IF m[i].k = key THEN [k |-> key, v |-> value] ELSE m[i]]
    ELSE Append(m, [k |-> key, v |-> value])

\* obj.f = value on a record-shaped object
SetField(r, f, value) == [x \in DOMAIN r \cup {f} |-> IF x = f THEN value ELSE r[x]]

\* delete obj.f
DelField(r, f) == [x \in DOMAIN r \ {f} |-> r[x]]

\* { ...base, ...overlay }
Spread(base, overlay) ==
    [x \in DOMAIN base \cup DOMAIN overlay |->
        IF x \in DOMAIN overlay THEN overlay[x] ELSE base[x]]

HasField(r, f) == f \in DOMAIN r

\* {}
EmptyRecord == [x \in {} |-> TRUE]

\* a proper prefix p of the path q
IsProperPrefix(p, q) == Len(p) < Len(q) /\ SubSeq(q, 1, Len(p)) = p

-----------------------------------------------------------------------------
(* Schema Introspector *)

MsPerDay == 86400000

\* new Date(x).getTime() for a date option given as a day number since the epoch
DateGetTime(d) == d.day * MsPerDay

mapInstanceToType(instance) ==
    CASE instance = "String"     -> "string"
      [] instance = "Number"     -> "number"
      [] instance = "Boolean"    -> "boolean"
      [] instance = "Date"       -> "date"
      [] instance = "ObjectID"   -> "objectId"
      [] instance = "Decimal128" -> "number"
      [] instance = "Buffer"     -> "buffer"
      [] instance = "Array"      -> "array"
      [] instance = "Embedded"   -> "object"
      [] OTHER                   -> "mixed"

NewObjectNode == [type |-> "object", children |-> <<>>]

RECURSIVE setNested(_, _, _)
setNested(node, path, value) ==
    LET ch == IF HasField(node, "children") THEN node.children ELSE <<>>
    IN  IF Len(path) = 1
        THEN SetField(node, "children", Put(ch, path[1], value))
        ELSE LET seg == path[1]
                 sub == IF Has(ch, seg) THEN Get(ch, seg) ELSE NewObjectNode
             IN  SetField(node, "children", Put(ch, seg, setNested(sub, Tail(path), value)))

\* A pattern is a string or a RegExp object; both are tagged.
\* opts.match instanceof RegExp ? opts.match : new RegExp(opts.match)
ToRegExp(m) == [kind |-> "regexp", source |-> m.source]

\* typeof pattern === 'string' ? pattern : pattern.source
PatternSource(pat) == pat.source

\* the string facets lifted from a field's (or a caster's) options
StringFacets(rules, opts) ==
    LET r1 == IF HasField(opts, "enum") THEN SetField(rules, "enum", opts.enum) ELSE rules
        r2 == IF HasField(opts, "match") THEN SetField(r1, "pattern", ToRegExp(opts.match)) ELSE r1
        r3 == IF HasField(opts, "minlength") THEN SetField(r2, "minLength", opts.minlength) ELSE r2
    IN  IF HasField(opts, "maxlength") THEN SetField(r3, "maxLength", opts.maxlength) ELSE r3

NumberFacets(rules, opts) ==
    LET r1 == IF HasField(opts, "min") THEN SetField(rules, "min", opts.min) ELSE rules
    IN  IF HasField(opts, "max") THEN SetField(r1, "max", opts.max) ELSE r1

DateFacets(rules, opts) ==
    LET r1 == IF HasField(opts, "min") THEN SetField(rules, "min", DateGetTime(opts.min)) ELSE rules
    IN  IF HasField(opts, "max") THEN SetField(r1, "max", DateGetTime(opts.max)) ELSE r1

ArrayBounds(rules, opts) ==
    LET r1 == IF HasField(opts, "minItems") THEN SetField(rules, "minItems", opts.minItems) ELSE rules
    IN  IF HasField(opts, "maxItems") THEN SetField(r1, "maxItems", opts.maxItems) ELSE r1

Threw == [ok |-> FALSE]

Returned(v) == [ok |-> TRUE, val |-> v]

RECURSIVE compileRulesFromMongooseSchema(_)
RECURSIVE CompileWalk(_, _, _)

\* the Rule of one enumerated (path, schematype); Threw when a nested schema cannot be walked
RuleOfSchemaType(st) ==
    LET type  == mapInstanceToType(st.instance)
        optsR == IF HasField(st, "options") THEN st.options ELSE EmptyRecord
        r0 == [type |-> type,
               required |-> (HasField(optsR, "required") /\ optsR.required)]
        r1 == IF type = "string" THEN StringFacets(r0, optsR)
              ELSE IF type = "number" THEN NumberFacets(r0, optsR)
              ELSE IF type = "date" THEN DateFacets(r0, optsR)
              ELSE r0
        itemsRes ==
            IF type = "array" /\ HasField(st, "caster")
            THEN LET caster   == st.caster
                     itemType == mapInstanceToType(caster.instance)
                     cOpts    == IF HasField(caster, "options") THEN caster.options ELSE EmptyRecord
                     i0 == [type |-> itemType]
                     i1 == IF itemType = "string" THEN StringFacets(i0, cOpts)
                           ELSE IF itemType = "number" THEN NumberFacets(i0, cOpts)
                           ELSE i0
                 IN  IF HasField(caster, "schema")
                     THEN LET sub == compileRulesFromMongooseSchema(caster.schema)
                          IN  IF sub.ok
                              THEN Returned(SetField(SetField(i1, "type", "object"),
                                                     "children", sub.val.children))
                              ELSE Threw
                     ELSE Returned(i1)
            ELSE Threw
        r2 == IF type = "array"
              THEN ArrayBounds(IF HasField(st, "caster") /\ itemsRes.ok
                               THEN SetField(r1, "items", itemsRes.val) ELSE r1, optsR)
              ELSE r1
        subRes == IF HasField(st, "schema")
                  THEN compileRulesFromMongooseSchema(st.schema) ELSE Threw
    IN  IF type = "array" /\ HasField(st, "caster") /\ ~itemsRes.ok THEN Threw
        ELSE IF HasField(st, "schema")
             THEN IF subRes.ok
                  THEN Returned(SetField(SetField(r2, "type", "object"),
                                         "children", subRes.val.children))
                  ELSE Threw
             ELSE Returned(r2)

\* schema.eachPath(cb): the callback applied to the enumerated paths in order
CompileWalk(paths, i, ruleTree) ==
    IF i > Len(paths) THEN Returned(ruleTree)
    ELSE LET r == RuleOfSchemaType(paths[i].schematype)
         IN  IF r.ok
             THEN CompileWalk(paths, i + 1, setNested(ruleTree, paths[i].path, r.val))
             ELSE Threw

\* a plausible slip: an object without eachPath read as a schema without paths
compileRulesFromMongooseSchema_Lenient(schema) ==
    IF ~schema.hasEachPath THEN Returned(NewObjectNode)
    ELSE CompileWalk(schema.paths, 1, NewObjectNode)

compileRulesFromMongooseSchema(schema) ==
    IF ~schema.hasEachPath THEN Threw
    ELSE CompileWalk(schema.paths, 1, NewObjectNode)

-----------------------------------------------------------------------------
(* JavaScript values of an Overrides / options argument.  The argument is an *)
(* insertion-ordered object; each property value is tagged with its type.   *)

Undef == [t |-> "undefined"]

Arr(s) == [t |-> "array", a |-> s]

Obj(m) == [t |-> "object", o |-> m]

Bool(b) == [t |-> "boolean", b |-> b]

\* obj.f (undefined when the property is absent)
Prop(o, f) == IF Has(o, f) THEN Get(o, f) ELSE Undef

\* ToBoolean
Truthy(v) == v.t = "array" \/ v.t = "object" \/ (v.t = "boolean" /\ v.b)

\* { ...a, ...b } on insertion-ordered objects
RECURSIVE SpreadInto(_, _, _)
SpreadInto(acc, b, i) ==
    IF i > Len(b) THEN acc ELSE SpreadInto(Put(acc, b[i].k, b[i].v), b, i + 1)

SpreadObj(a, b) == SpreadInto(a, b, 1)

\* x || [] and x ?? [] for an array-valued property
ArrOrEmpty(v) == IF v.t = "array" THEN v.a ELSE <<>>

\* Object.entries(x || {}) for an object-valued property
EntriesOrEmpty(v) == IF v.t = "object" THEN v.o ELSE <<>>

SeqToSet(s) == {s[i] : i \in 1..Len(s)}

-----------------------------------------------------------------------------
(* Override Engine *)

mergeRules(base, overlay) == Spread(base, overlay)

AppendDefault == [type |-> "string", required |-> TRUE]

RECURSIVE flattenFrom(_, _, _, _)
flattenFrom(children, i, prefix, out) ==
    IF i > Len(children) THEN out
    ELSE LET key   == children[i].k
             child == children[i].v
             p     == prefix \o <<key>>
         IN  IF child.type = "object" /\ HasField(child, "children")
             THEN flattenFrom(children, i + 1, prefix,
                              flattenFrom(child.children, 1, p, out))
             ELSE flattenFrom(children, i + 1, prefix, Put(out, p, child))

flatten(tree) ==
    flattenFrom(IF HasField(tree, "children") THEN tree.children ELSE <<>>, 1, <<>>, <<>>)

\* a plausible slip: a whitelisted path is kept although it is excluded
Survives_IncludeBeatsExclude(path, hasInclude, include, exclude) ==
    IF hasInclude THEN path \in include ELSE path \notin exclude

\* if (include && !include.has(path)) continue; if (exclude.has(path)) continue;
Survives(path, hasInclude, include, exclude) ==
    /\ ~(hasInclude /\ path \notin include)
    /\ path \notin exclude

\* a plausible slip: the two assignments in the other order (optional wins)
ForceRequired_OptionalLast(rule, path, optional, required) ==
    LET r1 == IF path \in required THEN SetField(rule, "required", TRUE) ELSE rule
    IN  IF path \in optional THEN SetField(r1, "required", FALSE) ELSE r1

\* const r = { ...rule }; if (optional.has(path)) r.required = false;
\* if (required.has(path)) r.required = true;
ForceRequired(rule, path, optional, required) ==
    LET r1 == IF path \in optional THEN SetField(rule, "required", FALSE) ELSE rule
    IN  IF path \in required THEN SetField(r1, "required", TRUE) ELSE r1

\* the loop over Object.entries(baseMap): selection, clone, optional / required
RECURSIVE EffectiveFrom(_, _, _, _, _, _, _)
EffectiveFrom(baseMap, i, hasInclude, include, exclude, optional, required) ==
    IF i > Len(baseMap) THEN <<>>
    ELSE LET path == baseMap[i].k
             rule == baseMap[i].v
             rest == EffectiveFrom(baseMap, i + 1, hasInclude, include, exclude,
                                   optional, required)
         IN  IF Survives(path, hasInclude, include, exclude)
             THEN <<[k |-> path, v |-> ForceRequired(rule, path, optional, required)]>>
                  \o rest
             ELSE rest

\* `effective` after the first loop of applyOverrides (before append)
EffectiveBase(ruleTree, overrides) ==
    LET inc == Prop(overrides, "include")
    IN  EffectiveFrom(flatten(ruleTree), 1,
                      inc.t = "array" /\ Len(inc.a) > 0,
                      SeqToSet(ArrOrEmpty(inc)),
                      SeqToSet(ArrOrEmpty(Prop(overrides, "exclude"))),
                      SeqToSet(ArrOrEmpty(Prop(overrides, "optional"))),
                      SeqToSet(ArrOrEmpty(Prop(overrides, "required"))))

\* the loop over Object.entries(overrides.append || {})
RECURSIVE AppendInto(_, _, _)
AppendInto(effective, append, i) ==
    IF i > Len(append) THEN effective
    ELSE AppendInto(Put(effective, append[i].k, mergeRules(AppendDefault, append[i].v)),
                    append, i + 1)

\* a plausible slip: append filtered by exclude like the base paths
AppendEntries_Excluded(overrides) ==
    SelectSeq(EntriesOrEmpty(Prop(overrides, "append")),
              LAMBDA e : e.k \notin SeqToSet(ArrOrEmpty(Prop(overrides, "exclude"))))

\* Object.entries(overrides.append || {})
AppendEntries(overrides) == EntriesOrEmpty(Prop(overrides, "append"))

\* the inner loop of the rebuild for one path: walk / create the intermediate
\* nodes below `cur`, then cur.children[last] = rule.  Indexing the children of
\* a node that has none is a TypeError.
RECURSIVE Attach(_, _, _)
Attach(cur, parts, rule) ==
    IF ~HasField(cur, "children") THEN Threw
    ELSE IF Len(parts) = 1
         THEN Returned(SetField(cur, "children", Put(cur.children, parts[1], rule)))
         ELSE LET seg == parts[1]
                  sub == IF Has(cur.children, seg) THEN Get(cur.children, seg)
                         ELSE NewObjectNode
                  r   == Attach(sub, Tail(parts), rule)
              IN  IF r.ok
                  THEN Returned(SetField(cur, "children", Put(cur.children, seg, r.val)))
                  ELSE Threw

\* The rebuild loop.  `r = { ...rule }` is a shallow clone: the clone of a base
\* leaf that carries a children map holds the very map of the base tree, so a
\* write below such a clone is a write into the base tree as well.  `shared`
\* holds the output paths at which such a clone currently sits.
RECURSIVE Rebuild(_, _, _, _, _, _)
Rebuild(effective, i, fromBase, root, base, shared) ==
    IF i > Len(effective) THEN [ok |-> TRUE, val |-> root, base |-> base]
    ELSE LET path    == effective[i].k
             rule    == effective[i].v
             w       == Attach(root, path, rule)
             aliased == \E q \in shared : IsProperPrefix(q, path)
             base2   == IF aliased THEN Attach(base, path, rule).val ELSE base
             kept    == {q \in shared : ~(q = path \/ IsProperPrefix(path, q))}
             shared2 == IF path \in fromBase /\ HasField(rule, "children")
                        THEN kept \cup {path} ELSE kept
         IN  IF ~w.ok THEN [ok |-> FALSE, base |-> base]
             ELSE Rebuild(effective, i + 1, fromBase, w.val, base2, shared2)

\* applyOverrides together with its effect on the tree it was given:
\* [ok, val (the returned tree, when ok), base (the input tree afterwards)]
applyOverridesRun(ruleTree, overrides) ==
    LET eb       == EffectiveBase(ruleTree, overrides)
        app      == AppendEntries(overrides)
        fromBase == KeySet(eb) \ KeySet(app)
    IN  Rebuild(AppendInto(eb, app, 1), 1, fromBase, NewObjectNode, ruleTree, {})

-----------------------------------------------------------------------------
(* Schema Emitter *)

ObjectIdPattern == "^[0-9a-fA-F]{24}$"

\* a plausible slip: the facet copied under the name the Rule uses
CopyFacet_RuleName(schema, node, f, g) ==
    IF HasField(node, f) THEN SetField(schema, f, node[f]) ELSE schema

\* if (node.f != null) schema.g = node.f
CopyFacet(schema, node, f, g) ==
    IF HasField(node, f) THEN SetField(schema, g, node[f]) ELSE schema

RECURSIVE nodeToSchema(_, _)
RECURSIVE PropertiesOf(_, _, _)
RECURSIVE RequiredOf(_, _)

\* properties[k] = nodeToSchema(child), in child order
PropertiesOf(children, i, allowUnknown) ==
    IF i > Len(children) THEN <<>>
    ELSE <<[k |-> children[i].k, v |-> nodeToSchema(children[i].v, allowUnknown)]>>
         \o PropertiesOf(children, i + 1, allowUnknown)

\* a plausible slip: every child listed, whatever its required flag
RequiredOf_EveryChild(children, i) ==
    [j \in 1..(Len(children) - i + 1) |-> children[j + i - 1].k]

\* if (child.required) required.push(k), in child order
RequiredOf(children, i) ==
    IF i > Len(children) THEN <<>>
    ELSE (IF HasField(children[i].v, "required") /\ children[i].v.required
          THEN <<children[i].k>> ELSE <<>>)
         \o RequiredOf(children, i + 1)

nodeToSchema(node, allowUnknown) ==
    LET type == IF HasField(node, "type") THEN node.type ELSE "undefined"
    IN  IF type = "object"
        THEN LET children == IF HasField(node, "children") THEN node.children ELSE <<>>
                 required == RequiredOf(children, 1)
                 s0 == [type |-> "object",
                        properties |-> PropertiesOf(children, 1, allowUnknown),
                        additionalProperties |-> allowUnknown]
             IN  IF Len(required) > 0 THEN SetField(s0, "required", required) ELSE s0
        ELSE IF type = "array"
        THEN LET s0 == [type |-> "array",
                        items |-> IF HasField(node, "items")
                                  THEN nodeToSchema(node.items, allowUnknown)
                                  ELSE EmptyRecord]
             IN  CopyFacet(CopyFacet(s0, node, "minItems", "minItems"),
                           node, "maxItems", "maxItems")
        ELSE IF type = "string"
        THEN LET s0 == CopyFacet(CopyFacet([type |-> "string"],
                           node, "minLength", "minLength"), node, "maxLength", "maxLength")
                 s1 == IF HasField(node, "pattern")
                       THEN SetField(s0, "pattern", PatternSource(node.pattern)) ELSE s0
             IN  CopyFacet(s1, node, "enum", "enum")
        ELSE IF type = "number"
        THEN CopyFacet(CopyFacet([type |-> "number"], node, "min", "minimum"),
                       node, "max", "maximum")
        ELSE IF type = "boolean" THEN [type |-> "boolean"]
        ELSE IF type = "date" THEN [type |-> "string", format |-> "date-time"]
        ELSE IF type = "objectId" THEN [type |-> "string", pattern |-> ObjectIdPattern]
        ELSE EmptyRecord

toJsonSchema(tree, allowUnknown) ==
    nodeToSchema([type |-> "object", children |-> tree.children], allowUnknown)

-----------------------------------------------------------------------------
(* Validator Compiler: the no-schema path *)

\* the loop over Object.entries(overrides.append): [properties, required]
RECURSIVE NoSchemaAppend(_, _, _, _)
NoSchemaAppend(append, i, properties, required) ==
    IF i > Len(append) THEN [properties |-> properties, required |-> required]
    ELSE LET key == append[i].k
             def == append[i].v
         IN  NoSchemaAppend(append, i + 1,
                 Put(properties, key, DelField(def, "required")),
                 IF HasField(def, "required") /\ def.required
                 THEN Append(required, key) ELSE required)

\* for (const key of includedSet) if (!properties[key]) properties[key] = {type:'string'}
RECURSIVE NoSchemaInclude(_, _, _)
NoSchemaInclude(included, i, properties) ==
    IF i > Len(included) THEN properties
    ELSE NoSchemaInclude(included, i + 1,
             IF Has(properties, included[i]) THEN properties
             ELSE Put(properties, included[i], [type |-> "string"]))

\* for (const k of overrides.required) if (!required.includes(k)) required.push(k)
RECURSIVE MergeRequired(_, _, _)
MergeRequired(list, i, required) ==
    IF i > Len(list) THEN required
    ELSE MergeRequired(list, i + 1,
             IF list[i] \in SeqToSet(required) THEN required ELSE Append(required, list[i]))

\* required.splice(required.indexOf(k), 1) when k is listed
RemoveFirst(required, key) ==
    IF key \notin SeqToSet(required) THEN required
    ELSE LET idx == CHOOSE j \in 1..Len(required) :
                        required[j] = key /\ \A h \in 1..(j - 1) : required[h] # key
         IN  SubSeq(required, 1, idx - 1) \o SubSeq(required, idx + 1, Len(required))

\* for (const k of overrides.optional) { remove k from required }
RECURSIVE DropOptional(_, _, _)
DropOptional(list, i, required) ==
    IF i > Len(list) THEN required
    ELSE DropOptional(list, i + 1, RemoveFirst(required, list[i]))

jsonSchemaFromOverrides(overrides, allowUnknown) ==
    LET app  == EntriesOrEmpty(Prop(overrides, "append"))
        a    == NoSchemaAppend(app, 1, <<>>, <<>>)
        \* new Set(overrides.include ?? []) followed by includedSet.add(key)
        incl == MergeRequired(KeySeq(app), 1,
                    MergeRequired(ArrOrEmpty(Prop(overrides, "include")), 1, <<>>))
        properties == NoSchemaInclude(incl, 1, a.properties)
        req1 == IF Prop(overrides, "required").t = "array"
                THEN MergeRequired(Prop(overrides, "required").a, 1, a.required)
                ELSE a.required
        req2 == IF Prop(overrides, "optional").t = "array"
                THEN DropOptional(Prop(overrides, "optional").a, 1, req1)
                ELSE req1
        s0 == [type |-> "object", properties |-> properties,
               additionalProperties |-> allowUnknown]
    IN  IF Len(req2) > 0 THEN SetField(s0, "required", req2) ELSE s0

-----------------------------------------------------------------------------
(* Cache Registry: the override key *)

\* Object.keys(overrideData).sort()
KeyWhitelist ==
    <<"allowUnknown", "append", "coerceTypes", "exclude", "include", "optional", "required">>

JsonNull == [json |-> "null"]

JsonBool(b) == [json |-> "boolean", b |-> b]

JsonArray(s) == [json |-> "array", items |-> s]

JsonObject(m) == [json |-> "object", props |-> m]

\* JSON.stringify of a Rule under the replacer array: only the properties the
\* array names are serialized, in the array's order
RECURSIVE StringifyRule(_, _)
StringifyRule(rule, i) ==
    IF i > Len(KeyWhitelist) THEN <<>>
    ELSE (IF HasField(rule, KeyWhitelist[i])
          THEN <<[k |-> KeyWhitelist[i], v |-> JsonBool(rule[KeyWhitelist[i]])]>>
          ELSE <<>>)
         \o StringifyRule(rule, i + 1)

\* JSON.stringify of the append object under the replacer array: the replacer
\* filters the properties of every nested object, the append map included
RECURSIVE StringifyAppend(_, _)
StringifyAppend(append, i) ==
    IF i > Len(KeyWhitelist) THEN <<>>
    ELSE (IF Has(append, <<KeyWhitelist[i]>>)
          THEN <<[k |-> KeyWhitelist[i],
                  v |-> JsonObject(StringifyRule(Get(append, <<KeyWhitelist[i]>>), 1))]>>
          ELSE <<>>)
         \o StringifyAppend(append, i + 1)

\* x || null, serialized
StringifyOrNull(v) ==
    IF ~Truthy(v) THEN JsonNull
    ELSE IF v.t = "array" THEN JsonArray(v.a)
    ELSE IF v.t = "object" THEN JsonObject(StringifyAppend(v.o, 1))
    ELSE JsonBool(v.b)

\* a plausible slip: JSON.stringify(overrides) of the argument as it was
\* written (insertion order kept, undefined properties dropped)
makeOverrideKey_AsWritten(overrides) ==
    SelectSeq(overrides, LAMBDA e : e.v.t # "undefined")

makeOverrideKey(overrides) ==
    [allowUnknown |-> JsonBool(Truthy(Prop(overrides, "allowUnknown"))),
     append       |-> StringifyOrNull(Prop(overrides, "append")),
     coerceTypes  |-> JsonBool(Truthy(Prop(overrides, "coerceTypes"))),
     exclude      |-> StringifyOrNull(Prop(overrides, "exclude")),
     include      |-> StringifyOrNull(Prop(overrides, "include")),
     optional     |-> StringifyOrNull(Prop(overrides, "optional")),
     required     |-> StringifyOrNull(Prop(overrides, "required"))]

-----------------------------------------------------------------------------
(* The schemas, overrides and options the operations are applied to *)

PUsername == <<"username">>

PAge == <<"age">>

PAddress == <<"address">>

PStreet == <<"address", "street">>

PPassword == <<"password">>

\* new Schema({ username: {type: String, required: true, minlength: 3, maxlength: 64},
\*              age: {type: Number, min: 13, max: 120}, address: { street: String } })
UserSchema ==
    [hasEachPath |-> TRUE,
     paths |-> << [path |-> PUsername,
                   schematype |-> [instance |-> "String",
                                   options |-> [required |-> TRUE, minlength |-> 3,
                                                maxlength |-> 64]]],
                  [path |-> PAge,
                   schematype |-> [instance |-> "Number",
                                   options |-> [min |-> 13, max |-> 120]]],
                  [path |-> PStreet,
                   schematype |-> [instance |-> "String", options |-> EmptyRecord]] >>]

\* an eachPath provider that enumerates a field and then a path below it
PrefixSchema ==
    [hasEachPath |-> TRUE,
     paths |-> << [path |-> PAddress,
                   schematype |-> [instance |-> "String",
                                   options |-> [required |-> TRUE]]],
                  [path |-> PStreet,
                   schematype |-> [instance |-> "String", options |-> EmptyRecord]] >>]

SchemaIds == {"userSchema", "prefixSchema"}

\* a plain object passed as schema: no eachPath
BareSchema == [hasEachPath |-> FALSE]

\* a schema with an array path whose caster's schema has no eachPath
BrokenItemsSchema ==
    [hasEachPath |-> TRUE,
     paths |-> << [path |-> PUsername,
                   schematype |-> [instance |-> "String", options |-> EmptyRecord]],
                  [path |-> <<"items">>,
                   schematype |-> [instance |-> "Array", options |-> EmptyRecord,
                                   caster |-> [instance |-> "Mixed",
                                               schema |-> BareSchema]]] >>]

BrokenIds == {"bareSchema", "brokenItemsSchema"}

ApiSchemas == SchemaIds \cup BrokenIds

SchemaOf(id) ==
    CASE id = "userSchema" -> UserSchema
      [] id = "prefixSchema" -> PrefixSchema
      [] id = "bareSchema" -> BareSchema
      [] id = "brokenItemsSchema" -> BrokenItemsSchema

\* no schema: null / undefined
NoSchema == "null"

\* an object literal: the listed properties in the listed order, a property
\* whose value is "absent" left out
RECURSIVE Literal(_)
Literal(props) ==
    IF props = <<>> THEN <<>>
    ELSE IF Head(props).v.t = "absent" THEN Literal(Tail(props))
    ELSE <<Head(props)>> \o Literal(Tail(props))

Absent == [t |-> "absent"]

KV(key, value) == [k |-> key, v |-> value]

MkOverrides(inc, exc, opt, req, app) ==
    Literal(<<KV("include", inc), KV("exclude", exc), KV("optional", opt),
              KV("required", req), KV("append", app)>>)

PwMin8 == [type |-> "string", required |-> TRUE, minLength |-> 8]

PwMin12 == [type |-> "string", required |-> TRUE, minLength |-> 12]

IncludeChoices ==
    {Absent, Arr(<<>>), Arr(<<PUsername>>), Arr(<<PUsername, PStreet>>), Arr(<<PPassword>>)}

ExcludeChoices == {Absent, Arr(<<PStreet>>), Arr(<<PUsername>>), Arr(<<PPassword>>)}

OptionalChoices == {Absent, Arr(<<PUsername>>), Arr(<<PAge, PPassword>>)}

RequiredChoices == {Absent, Arr(<<PUsername>>), Arr(<<PAge, PPassword>>)}

AppendChoices ==
    {Absent,
     Obj(<<KV(PPassword, EmptyRecord)>>),
     Obj(<<KV(PPassword, [type |-> "number", required |-> FALSE])>>),
     Obj(<<KV(PPassword, PwMin8)>>),
     Obj(<<KV(PUsername, [minLength |-> 5])>>),
     Obj(<<KV(PStreet, [type |-> "number"])>>),
     Obj(<<KV(PStreet, [type |-> "number"]), KV(PAddress, [type |-> "string"])>>)}

OverridesUniverse ==
    {MkOverrides(inc, exc, opt, req, app) :
        inc \in IncludeChoices, exc \in ExcludeChoices, opt \in OptionalChoices,
        req \in RequiredChoices, app \in AppendChoices}

-----------------------------------------------------------------------------
(* Initial state of the cache registry *)

NoEntry == [present |-> FALSE]

Buckets == ApiSchemas \cup {NoSchema}

RegistryInit ==
    /\ ruleTreeCache = [s \in ApiSchemas |-> NoEntry]
    \* the two null-schema Maps exist from module load; a per-schema bucket is
    \* created on first use
    /\ jsonSchemaCache =
          [b \in Buckets |-> IF b = NoSchema THEN [present |-> TRUE, map |-> {}] ELSE NoEntry]
    /\ ajvValidatorCache =
          [b \in Buckets |-> IF b = NoSchema THEN [present |-> TRUE, map |-> {}] ELSE NoEntry]
    /\ firstTree = [s \in ApiSchemas |-> NoEntry]
    /\ compiled = [s \in ApiSchemas |-> {}]
    /\ nextId = 1
    /\ walks = [s \in ApiSchemas |-> 0]
    /\ calls = 0
    /\ last = [op |-> "none"]

registry == <<ruleTreeCache, jsonSchemaCache, ajvValidatorCache, firstTree, compiled,
              nextId, walks, calls, last>>

-----------------------------------------------------------------------------
(* The override engine, the emitter and the no-schema path applied to one   *)
(* (rule tree, overrides, allowUnknown)                                     *)

InitOverrides ==
    /\ RegistryInit
    /\ pc = "overrides-call"
    /\ inp \in [schema : SchemaIds, overrides : OverridesUniverse, allowUnknown : BOOLEAN]
    /\ res = [op |-> "none"]

RunOverrides ==
    /\ pc = "overrides-call"
    /\ LET tree == compileRulesFromMongooseSchema(SchemaOf(inp.schema)).val
           run  == applyOverridesRun(tree, inp.overrides)
       IN  res' = [op        |-> "overrides",
                   tree      |-> tree,
                   effective |-> EffectiveBase(tree, inp.overrides),
                   run       |-> run,
                   wire      |-> IF run.ok THEN Returned(toJsonSchema(run.val, inp.allowUnknown))
                                 ELSE Threw,
                   noSchema  |-> jsonSchemaFromOverrides(inp.overrides, inp.allowUnknown)]
    /\ pc' = "overrides-done"
    /\ UNCHANGED <<registry, inp>>

NextOverrides == RunOverrides

SpecOverrides == InitOverrides /\ [][NextOverrides]_vars

-----------------------------------------------------------------------------
(* Properties of the override engine and of the no-schema path *)

OverridesDone == pc = "overrides-done"

\* the node at a dotted path of a tree, when there is one
RECURSIVE NodeAt(_, _)
NodeAt(node, path) ==
    IF path = <<>> THEN Returned(node)
    ELSE IF ~HasField(node, "children") THEN Threw
    ELSE IF ~Has(node.children, path[1]) THEN Threw
    ELSE NodeAt(Get(node.children, path[1]), Tail(path))

ListedIn(o, f) == SeqToSet(ArrOrEmpty(Prop(o, f)))

AppendOf(o) == EntriesOrEmpty(Prop(o, "append"))

\* no appended path is p, lies below p or lies above p
Unshadowed(o, p) ==
    \A q \in KeySet(AppendOf(o)) :
        q # p /\ ~IsProperPrefix(q, p) /\ ~IsProperPrefix(p, q)

\* the required flag the claim gives a retained base path
ExpectedRequired(o, p, baseRule) ==
    IF p \in ListedIn(o, "required") THEN TRUE
    ELSE IF p \in ListedIn(o, "optional") THEN FALSE
    ELSE baseRule.required

\* C4: every retained base leaf path has required = TRUE when it is listed in
\* overrides.required (also when it is listed in overrides.optional as well),
\* required = FALSE when it is listed in overrides.optional only, and the base
\* Rule's flag otherwise; in the map the first loop builds and, where append
\* does not touch the path, in the tree that is returned.
C4_RequiredTieBreak ==
    OverridesDone =>
        \A i \in 1..Len(res.effective) :
            LET p    == res.effective[i].k
                r    == res.effective[i].v
                want == ExpectedRequired(inp.overrides, p, Get(flatten(res.tree), p))
            IN  /\ r.required = want
                /\ (res.run.ok /\ Unshadowed(inp.overrides, p)) =>
                      /\ NodeAt(res.run.val, p).ok
                      /\ NodeAt(res.run.val, p).val.required = want

\* a retained path that the base tree leaves optional, listed in both sets,
\* comes out required in the returned tree
C4_Witness ==
    /\ OverridesDone
    /\ res.run.ok
    /\ PAge \in ListedIn(inp.overrides, "required") \cap ListedIn(inp.overrides, "optional")
    /\ Has(res.effective, PAge)
    /\ ~Get(flatten(res.tree), PAge).required
    /\ NodeAt(res.run.val, PAge).ok
    /\ NodeAt(res.run.val, PAge).val.required

\* C5: the base paths that survive the first loop are exactly the flattened
\* base leaf paths p with (include absent or empty, or p in include) and p not
\* in exclude.
C5_SurvivingPaths ==
    OverridesDone =>
        KeySet(res.effective) =
            {p \in KeySet(flatten(res.tree)) :
                /\ \/ Prop(inp.overrides, "include").t # "array"
                   \/ Prop(inp.overrides, "include").a = <<>>
                   \/ p \in ListedIn(inp.overrides, "include")
                /\ p \notin ListedIn(inp.overrides, "exclude")}

\* a base path listed in include and in exclude is dropped while another
\* included path is kept
C5_Witness ==
    /\ OverridesDone
    /\ PStreet \in KeySet(flatten(res.tree))
    /\ PStreet \in ListedIn(inp.overrides, "include") \cap ListedIn(inp.overrides, "exclude")
    /\ ~Has(res.effective, PStreet)
    /\ Has(res.effective, PUsername)

\* no appended path is a proper dotted prefix of another appended path
AppendPrefixFree(o) ==
    \A p, q \in KeySet(AppendOf(o)) : ~IsProperPrefix(p, q)

\* C6 (amended): when no appended path is a proper dotted prefix of another
\* appended path, every path named in overrides.append is present in the tree
\* applyOverrides returns, whatever include and exclude contain, and its Rule
\* there is the appended definition over the defaults, replacing any base Rule
\* at that path.
C6_AppendPresentPrefixFree ==
    (OverridesDone /\ res.run.ok /\ AppendPrefixFree(inp.overrides)) =>
        \A i \in 1..Len(AppendOf(inp.overrides)) :
            LET p   == AppendOf(inp.overrides)[i].k
                def == AppendOf(inp.overrides)[i].v
            IN  /\ NodeAt(res.run.val, p).ok
                /\ NodeAt(res.run.val, p).val = mergeRules(AppendDefault, def)

\* an appended path that is excluded, is missing from a non-empty include and
\* has a base Rule: the returned tree holds the appended definition there
C6_Witness ==
    /\ OverridesDone
    /\ res.run.ok
    /\ Has(AppendOf(inp.overrides), PUsername)
    /\ PUsername \in ListedIn(inp.overrides, "exclude")
    /\ ListedIn(inp.overrides, "include") # {}
    /\ PUsername \notin ListedIn(inp.overrides, "include")
    /\ Has(flatten(res.tree), PUsername)
    /\ NodeAt(res.run.val, PUsername).ok
    /\ NodeAt(res.run.val, PUsername).val
          = mergeRules(AppendDefault, Get(AppendOf(inp.overrides), PUsername))
    /\ NodeAt(res.run.val, PUsername).val # Get(flatten(res.tree), PUsername)

\* C6 (as claimed): every path named in overrides.append is present in the
\* returned tree, whatever include and exclude contain, and its Rule there is
\* the appended definition (over the defaults).
C6_AppendAlwaysPresent ==
    (OverridesDone /\ res.run.ok) =>
        \A i \in 1..Len(AppendOf(inp.overrides)) :
            LET p   == AppendOf(inp.overrides)[i].k
                def == AppendOf(inp.overrides)[i].v
            IN  /\ NodeAt(res.run.val, p).ok
                /\ NodeAt(res.run.val, p).val = mergeRules(AppendDefault, def)

\* C7: in schema mode and in no-schema mode alike, an appended top-level field
\* given without a type is emitted as a string, and one given without a
\* required flag (and not named in overrides.required / optional) is listed
\* as required in the wire schema.
C7_AppendDefaultsBothModes ==
    OverridesDone =>
        \A i \in 1..Len(AppendOf(inp.overrides)) :
            LET p   == AppendOf(inp.overrides)[i].k
                def == AppendOf(inp.overrides)[i].v
                sm  == res.wire.val
                ns  == res.noSchema
                free == p \notin ListedIn(inp.overrides, "required")
                                 \cup ListedIn(inp.overrides, "optional")
            IN  (Len(p) = 1) =>
                  /\ (res.wire.ok /\ ~HasField(def, "type")) =>
                        /\ HasField(Get(sm.properties, p[1]), "type")
                        /\ Get(sm.properties, p[1]).type = "string"
                  /\ (res.wire.ok /\ ~HasField(def, "required")) =>
                        /\ HasField(sm, "required")
                        /\ p[1] \in SeqToSet(sm.required)
                  /\ ~HasField(def, "type") =>
                        /\ HasField(Get(ns.properties, p), "type")
                        /\ Get(ns.properties, p).type = "string"
                  /\ (~HasField(def, "required") /\ free) =>
                        /\ HasField(ns, "required")
                        /\ p \in SeqToSet(ns.required)

\* C10: in no-schema mode a field named in overrides.required and in
\* overrides.optional is in the required list of the emitted wire schema.
C10_NoSchemaRequiredWins ==
    OverridesDone =>
        \A p \in ListedIn(inp.overrides, "required") \cap ListedIn(inp.overrides, "optional") :
            /\ HasField(res.noSchema, "required")
            /\ p \in SeqToSet(res.noSchema.required)

\* the appended paths whose definition carries required = true
AppendedRequired(o) ==
    {AppendOf(o)[i].k : i \in {j \in 1..Len(AppendOf(o)) :
                                  /\ HasField(AppendOf(o)[j].v, "required")
                                  /\ AppendOf(o)[j].v.required}}

RequiredListOf(doc) == IF HasField(doc, "required") THEN SeqToSet(doc.required) ELSE {}

\* C11: the no-schema document has as properties exactly the appended names
\* plus the names in include; an included name without an append definition
\* is {type: string} and is required only when overrides.required lists it;
\* the required list holds the appended fields whose definition has
\* required = true plus overrides.required.
C11_NoSchemaShape ==
    OverridesDone =>
        LET o  == inp.overrides
            ns == res.noSchema
        IN  /\ KeySet(ns.properties) = KeySet(AppendOf(o)) \cup ListedIn(o, "include")
            /\ \A p \in ListedIn(o, "include") \ KeySet(AppendOf(o)) :
                  /\ Get(ns.properties, p) = [type |-> "string"]
                  /\ p \in RequiredListOf(ns) => p \in ListedIn(o, "required")
            /\ RequiredListOf(ns) = AppendedRequired(o) \cup ListedIn(o, "required")

-----------------------------------------------------------------------------
(* makeOverrideKey applied to two overrides+options objects *)

MaxKeyProps == 2

KeyEntryPool ==
    {KV("include", Arr(<<PUsername>>)),
     KV("include", Undef),
     KV("exclude", Arr(<<PStreet>>)),
     KV("optional", Arr(<<PUsername>>)),
     KV("required", Arr(<<PUsername>>)),
     KV("append", Obj(<<KV(PPassword, PwMin8)>>)),
     KV("append", Obj(<<KV(PPassword, PwMin12)>>)),
     KV("append", Obj(<<KV(PUsername, PwMin8)>>)),
     KV("allowUnknown", Bool(TRUE)),
     KV("allowUnknown", Undef),
     KV("coerceTypes", Bool(TRUE))}

\* the objects with at most MaxKeyProps properties, in every order of writing
KeyObjects ==
    {o \in UNION {[1..n -> KeyEntryPool] : n \in 0..MaxKeyProps} :
        \A i, j \in 1..Len(o) : i # j => o[i].k # o[j].k}

InitKey ==
    /\ RegistryInit
    /\ pc = "key-call"
    /\ inp \in [x : KeyObjects, y : KeyObjects]
    /\ res = [op |-> "none"]

RunKey ==
    /\ pc = "key-call"
    /\ res' = [op |-> "key", kx |-> makeOverrideKey(inp.x), ky |-> makeOverrideKey(inp.y)]
    /\ pc' = "key-done"
    /\ UNCHANGED <<registry, inp>>

NextKey == RunKey

SpecKey == InitKey /\ [][NextKey]_vars

KeyDone == pc = "key-done"

\* a component of an overrides+options value, up to the order of the keys of
\* the append map and with undefined read as absent
Component(o, f) ==
    LET v == Prop(o, f)
    IN  IF v.t = "object"
        THEN [t |-> "object", entries |-> {<<v.o[i].k, v.o[i].v>> : i \in 1..Len(v.o)}]
        ELSE v

Components ==
    {"include", "exclude", "optional", "required", "append", "allowUnknown", "coerceTypes"}

StructurallyEqual(x, y) == \A f \in Components : Component(x, f) = Component(y, f)

\* C1: two overrides+options values that differ in include, exclude, optional,
\* required, in the appended field names or definitions, in allowUnknown or in
\* coerceTypes have different keys.
C1_KeyDistinguishesContent ==
    KeyDone =>
        ((\E f \in Components : Component(inp.x, f) # Component(inp.y, f))
            => res.kx # res.ky)

\* C9: structurally equal overrides+options values have the same key,
\* whatever the order their keys were written in and whether a component is
\* absent or present with the value undefined.
C9_KeyOfEqualValues ==
    KeyDone => (StructurallyEqual(inp.x, inp.y) => res.kx = res.ky)

\* two values written with their keys in opposite orders, one of them
\* undefined in the first and absent from the second, get one key
C9_Witness ==
    /\ KeyDone
    /\ Len(inp.x) = 2
    /\ Len(inp.y) = 1
    /\ inp.x[1].v.t = "undefined"
    /\ inp.x[2] = inp.y[1]
    /\ StructurallyEqual(inp.x, inp.y)
    /\ res.kx = res.ky

-----------------------------------------------------------------------------
(* The public operations over the cache registry *)

MaxCalls == 2

ApiOverrides ==
    {<<>>,
     MkOverrides(Arr(<<PUsername>>), Absent, Absent, Absent, Absent),
     MkOverrides(Absent, Absent, Absent, Absent, Obj(<<KV(PPassword, PwMin8)>>)),
     MkOverrides(Absent, Absent, Absent, Absent, Obj(<<KV(PPassword, PwMin12)>>)),
     MkOverrides(Absent, Absent, Absent, Absent, Obj(<<KV(PStreet, [type |-> "number"])>>))}

ApiOptions == {<<>>, <<KV("allowUnknown", Bool(TRUE))>>}

\* Map.get(key): [ok |-> FALSE] on a miss
Lookup(map, key) ==
    IF \E e \in map : e.k = key
    THEN Returned((CHOOSE e \in map : e.k = key).v)
    ELSE Threw

\* Map.set(key, value)
Store(map, key, value) == {e \in map : e.k # key} \cup {[k |-> key, v |-> value]}

\* new Ajv({allErrors, coerceTypes, useDefaults, removeAdditional, strict}).compile(jsonSchema):
\* the compiled function is fixed by the document and the engine options
AjvCompile(jsonSchema, options) ==
    [schema           |-> jsonSchema,
     coerceTypes      |-> Truthy(Prop(options, "coerceTypes")),
     removeAdditional |-> IF Truthy(Prop(options, "allowUnknown")) THEN "false" ELSE "all"]

\* getJsonSchemaCache / getAjvValidatorCache: the bucket of a schema, created when missing
BucketOf(cache, b) == IF cache[b].present THEN cache[b].map ELSE {}

\* a plausible slip: the tree stored before the introspector has returned, so
\* that a throw leaves the root it had built so far in the cache
NewTreeEntry_StoredBeforeReturn(r) ==
    [ok |-> TRUE, fresh |-> TRUE,
     entry |-> [present |-> TRUE, id |-> nextId,
                tree |-> IF r.ok THEN r.val ELSE NewObjectNode]]

\* ruleTreeCache.set(mongooseSchema, ruleTree) with the tree the introspector returned
NewTreeEntry(r) ==
    IF r.ok
    THEN [ok |-> TRUE, fresh |-> TRUE,
          entry |-> [present |-> TRUE, id |-> nextId, tree |-> r.val]]
    ELSE [ok |-> FALSE]

\* a plausible slip: the introspector called without looking the schema up
getOrSetRuleTree_NoLookup(s) ==
    NewTreeEntry(compileRulesFromMongooseSchema(SchemaOf(s)))

\* getOrSetRuleTree on a non-null schema: [ok, entry, fresh]
getOrSetRuleTree(s) ==
    IF ruleTreeCache[s].present
    THEN [ok |-> TRUE, entry |-> ruleTreeCache[s], fresh |-> FALSE]
    ELSE NewTreeEntry(compileRulesFromMongooseSchema(SchemaOf(s)))

\* the registry as a call that changes nothing leaves it
RegistryUnchanged ==
    [ruleTreeCache |-> ruleTreeCache, firstTree |-> firstTree,
     nextId |-> nextId, walks |-> walks, jsonSchemaCache |-> jsonSchemaCache]

\* the registry once the rule tree `got` is in the cache and applyOverrides has
\* run on it: the cached tree is the very object applyOverrides was given
RegistryAfterRun(s, got, base) ==
    [ruleTreeCache   |-> [ruleTreeCache EXCEPT ![s] = [got.entry EXCEPT !.tree = base]],
     firstTree       |-> IF got.fresh THEN [firstTree EXCEPT ![s] = got.entry]
                         ELSE firstTree,
     nextId          |-> IF got.fresh THEN nextId + 1 ELSE nextId,
     walks           |-> IF got.fresh THEN [walks EXCEPT ![s] = @ + 1] ELSE walks,
     jsonSchemaCache |-> jsonSchemaCache]

\* jsonSchemaCache.get(overrideKey), else `built`, stored under overrideKey
CachedOrBuilt(bucket, overrideKey, built) ==
    IF \E e \in bucket : e.k = overrideKey
    THEN (CHOOSE e \in bucket : e.k = overrideKey).v
    ELSE built

WithDocument(registry0, s, overrideKey, js) ==
    [registry0 EXCEPT !.jsonSchemaCache =
        [jsonSchemaCache EXCEPT
            ![s] = [present |-> TRUE,
                    map |-> Store(BucketOf(jsonSchemaCache, s), overrideKey, js)]]]
    @@ [ok |-> TRUE, doc |-> js]

AfterOverrides(s, overrideKey, allowUnknown, got, run) ==
    IF ~run.ok
    THEN RegistryAfterRun(s, got, run.base) @@ [ok |-> FALSE]
    ELSE WithDocument(RegistryAfterRun(s, got, run.base), s, overrideKey,
                      CachedOrBuilt(BucketOf(jsonSchemaCache, s), overrideKey,
                                    toJsonSchema(run.val, allowUnknown)))

AfterRuleTree(s, overrides, overrideKey, allowUnknown, got) ==
    IF ~got.ok
    \* compileFn threw: nothing is stored; eachPath ran when the schema has one
    THEN [RegistryUnchanged EXCEPT
             !.walks = IF SchemaOf(s).hasEachPath
                       THEN [walks EXCEPT ![s] = @ + 1] ELSE walks]
         @@ [ok |-> FALSE]
    ELSE AfterOverrides(s, overrideKey, allowUnknown, got,
                        applyOverridesRun(got.entry.tree, overrides))

\* The steps buildAjvValidator and emitJsonSchema share: the rule tree, the
\* overrides and the JSON Schema cache.  The value is the outcome (ok, and the
\* document when ok) with the registry variables as the steps leave them.
JsonSchemaStep(s, overrides, overrideKey, allowUnknown) ==
    IF s = NoSchema
    THEN WithDocument(RegistryUnchanged, s, overrideKey,
                      CachedOrBuilt(BucketOf(jsonSchemaCache, s), overrideKey,
                                    jsonSchemaFromOverrides(overrides, allowUnknown)))
    ELSE AfterRuleTree(s, overrides, overrideKey, allowUnknown, getOrSetRuleTree(s))

CallRecord(op, s, overrides, options) ==
    [op |-> op, schema |-> s, overrides |-> overrides, options |-> options]

\* the registry variables after the shared steps
CommitRegistry(step) ==
    /\ ruleTreeCache' = step.ruleTreeCache
    /\ firstTree' = step.firstTree
    /\ nextId' = step.nextId
    /\ walks' = step.walks
    /\ jsonSchemaCache' = step.jsonSchemaCache

\* ajvValidatorCache.get(overrideKey), else ajv.compile(jsonSchema), stored and returned
ReturnValidator(s, overrides, options, overrideKey, validateFn) ==
    /\ ajvValidatorCache' =
           [ajvValidatorCache EXCEPT
               ![s] = [present |-> TRUE,
                       map |-> Store(BucketOf(ajvValidatorCache, s),
                                     overrideKey, validateFn)]]
    /\ last' = CallRecord("buildAjvValidator", s, overrides, options)
               @@ [ok |-> TRUE, validator |-> validateFn]

FinishBuild(s, overrides, options, overrideKey, step) ==
    /\ CommitRegistry(step)
    /\ IF step.ok
       THEN ReturnValidator(s, overrides, options, overrideKey,
                            CachedOrBuilt(BucketOf(ajvValidatorCache, s), overrideKey,
                                          AjvCompile(step.doc, options)))
       ELSE /\ UNCHANGED ajvValidatorCache
            /\ last' = CallRecord("buildAjvValidator", s, overrides, options)
                       @@ [ok |-> FALSE]

BuildWithKey(s, overrides, options, overrideKey) ==
    FinishBuild(s, overrides, options, overrideKey,
                JsonSchemaStep(s, overrides, overrideKey,
                               Truthy(Prop(options, "allowUnknown"))))

BuildAjvValidator(s, overrides, options) ==
    /\ calls < MaxCalls
    /\ calls' = calls + 1
    /\ BuildWithKey(s, overrides, options, makeOverrideKey(SpreadObj(overrides, options)))
    /\ UNCHANGED <<compiled, pc, inp, res>>

FinishEmit(s, overrides, options, step) ==
    /\ CommitRegistry(step)
    /\ last' = CallRecord("emitJsonSchema", s, overrides, options)
               @@ (IF step.ok THEN [ok |-> TRUE, doc |-> step.doc] ELSE [ok |-> FALSE])

EmitJsonSchema(s, overrides, options) ==
    /\ calls < MaxCalls
    /\ calls' = calls + 1
    /\ FinishEmit(s, overrides, options,
                  JsonSchemaStep(s, overrides,
                                 makeOverrideKey(SpreadObj(overrides, options)),
                                 Truthy(Prop(options, "allowUnknown"))))
    /\ UNCHANGED <<ajvValidatorCache, compiled, pc, inp, res>>

\* the exported compileRulesFromMongooseSchema called by the application: every
\* call builds `const ruleTree = { type: 'object', children: {} }` anew
ReturnTree(s, r) ==
    IF r.ok
    THEN /\ compiled' = [compiled EXCEPT ![s] = @ \cup {nextId}]
         /\ nextId' = nextId + 1
         /\ last' = [op |-> "compileRules", schema |-> s, ok |-> TRUE,
                     id |-> nextId, tree |-> r.val]
    ELSE /\ UNCHANGED <<compiled, nextId>>
         /\ last' = [op |-> "compileRules", schema |-> s, ok |-> FALSE]

CompileRules(s) ==
    /\ calls < MaxCalls
    /\ calls' = calls + 1
    /\ ReturnTree(s, compileRulesFromMongooseSchema(SchemaOf(s)))
    /\ UNCHANGED <<ruleTreeCache, jsonSchemaCache, ajvValidatorCache, firstTree,
                   walks, pc, inp, res>>

Init ==
    /\ RegistryInit
    /\ pc = "api"
    /\ inp = [op |-> "none"]
    /\ res = [op |-> "none"]

\* the schema arguments whose introspection succeeds, and no schema
ApiTargets == SchemaIds \cup {NoSchema}

Next ==
    \/ \E s \in ApiTargets, o \in ApiOverrides, opt \in ApiOptions :
          BuildAjvValidator(s, o, opt)
    \/ \E s \in ApiTargets, o \in ApiOverrides, opt \in ApiOptions :
          EmitJsonSchema(s, o, opt)
    \/ \E s \in BrokenIds, opt \in ApiOptions : BuildAjvValidator(s, <<>>, opt)
    \/ \E s \in BrokenIds, opt \in ApiOptions : EmitJsonSchema(s, <<>>, opt)
    \/ \E s \in ApiSchemas : CompileRules(s)

Spec == Init /\ [][Next]_vars

\* the document the pipeline yields for (schema, overrides, options) without any cache
DocumentOf(run, allowUnknown) ==
    IF run.ok THEN Returned(toJsonSchema(run.val, allowUnknown)) ELSE Threw

UncachedDocument(s, overrides, options) ==
    DocumentOf(applyOverridesRun(compileRulesFromMongooseSchema(SchemaOf(s)).val, overrides),
               Truthy(Prop(options, "allowUnknown")))

ReturnedDocument ==
    IF last.op = "emitJsonSchema" THEN last.doc ELSE last.validator.schema

Answers(want) == want.ok => ReturnedDocument = want.val

\* C2: whatever calls came before, emitJsonSchema on a schema returns the
\* document toJsonSchema(applyOverrides(compileRules(s), o), allowUnknown), and
\* buildAjvValidator returns a validator compiled from exactly that document.
C2_CachingTransparent ==
    (last.op \in {"emitJsonSchema", "buildAjvValidator"} /\ last.schema # NoSchema /\ last.ok)
        => Answers(UncachedDocument(last.schema, last.overrides, last.options))

\* C3: compileRulesFromMongooseSchema called twice with one schema reference
\* returns one and the same tree object.
C3_CompileReturnsSameObject ==
    \A s \in SchemaIds : Cardinality(compiled[s]) <= 1

\* C8: the RuleTree cached for a schema stays structurally equal to the tree
\* its first introspection produced.
C8_CachedTreeNeverMutated ==
    \A s \in SchemaIds :
        ruleTreeCache[s].present => ruleTreeCache[s].tree = firstTree[s].tree

-----------------------------------------------------------------------------
(* toJsonSchema applied to one rule tree *)

MaxChildren == 2

RegExpOf(src) == [kind |-> "regexp", source |-> src]

PatternText(src) == [kind |-> "string", source |-> src]

\* Rules of the non-object types, with and without each optional facet
LeafRules ==
    {[type |-> "string"],
     [type |-> "string", required |-> TRUE, minLength |-> 3, maxLength |-> 64],
     [type |-> "string", required |-> FALSE, minLength |-> 0],
     [type |-> "string", maxLength |-> 8, enum |-> <<"b", "a">>],
     [type |-> "string", required |-> TRUE, pattern |-> RegExpOf("^[a-z]+$")],
     [type |-> "string", pattern |-> PatternText("^\\d+$"), enum |-> <<>>],
     [type |-> "number"],
     [type |-> "number", required |-> TRUE, min |-> 0],
     [type |-> "number", required |-> FALSE, min |-> 13, max |-> 120],
     [type |-> "number", max |-> 0 - 5],
     [type |-> "boolean", required |-> TRUE],
     [type |-> "date", required |-> TRUE, min |-> 0, max |-> MsPerDay],
     [type |-> "date"],
     [type |-> "objectId", required |-> TRUE],
     [type |-> "mixed", required |-> FALSE],
     [type |-> "buffer", required |-> TRUE, minLength |-> 1]}

ObjectRules ==
    {[type |-> "object", children |-> <<>>],
     [type |-> "object", required |-> TRUE,
      children |-> <<KV("x", [type |-> "string", required |-> TRUE, minLength |-> 1]),
                     KV("y", [type |-> "number", required |-> FALSE]),
                     KV("z", [type |-> "date", required |-> TRUE])>>],
     [type |-> "object", required |-> FALSE,
      children |-> <<KV("x", [type |-> "boolean"]),
                     KV("in", [type |-> "object", required |-> TRUE,
                               children |-> <<KV("deep", [type |-> "objectId",
                                                          required |-> TRUE])>>])>>]}

ArrayRules ==
    {[type |-> "array"],
     [type |-> "array", required |-> TRUE, minItems |-> 1, maxItems |-> 5],
     [type |-> "array", minItems |-> 0,
      items |-> [type |-> "string", minLength |-> 2, enum |-> <<"r", "g">>]],
     [type |-> "array", items |-> [type |-> "mixed"], maxItems |-> 3],
     [type |-> "array", required |-> TRUE,
      items |-> [type |-> "object",
                 children |-> <<KV("sku", [type |-> "string", required |-> TRUE]),
                                KV("qty", [type |-> "number", min |-> 1])>>]],
     [type |-> "array",
      items |-> [type |-> "array", items |-> [type |-> "number", max |-> 9]]]}

RulePool == LeafRules \cup ObjectRules \cup ArrayRules

FieldNames == <<"a", "b", "c">>

\* rule trees with up to MaxChildren top-level fields
TreeUniverse ==
    {[type |-> "object", children |-> [i \in 1..n |-> KV(FieldNames[i], f[i])]] :
        n \in 0..MaxChildren, f \in [1..MaxChildren -> RulePool]}

InitEmit ==
    /\ RegistryInit
    /\ pc = "emit-call"
    /\ inp \in [tree : TreeUniverse, allowUnknown : BOOLEAN]
    /\ res = [op |-> "none"]

RunEmit ==
    /\ pc = "emit-call"
    /\ res' = [op |-> "toJsonSchema", doc |-> toJsonSchema(inp.tree, inp.allowUnknown)]
    /\ pc' = "emit-done"
    /\ UNCHANGED <<registry, inp>>

NextEmit == RunEmit

SpecEmit == InitEmit /\ [][NextEmit]_vars

EmitDone == pc = "emit-done"

IsRequired(rule) == HasField(rule, "required") /\ rule.required

\* the names of the required children, in child order
RequiredNames(children) ==
    SelectSeq(KeySeq(children), LAMBDA k : IsRequired(Get(children, k)))

\* the object nodes of a rule node paired with the schema emitted in their place
RECURSIVE ObjectPairs(_, _)
ObjectPairs(node, schema) ==
    IF node.type = "object"
    THEN {<<node, schema>>}
         \cup UNION {ObjectPairs(node.children[i].v, Get(schema.properties, node.children[i].k)) :
                        i \in 1..Len(node.children)}
    ELSE IF node.type = "array" /\ HasField(node, "items")
    THEN ObjectPairs(node.items, schema.items)
    ELSE {}

\* C12: every object node at any depth (root, nested object, object inside
\* array items) is emitted as type "object" with one property per child, a
\* required list of exactly the required children in child order (no required
\* key when none is required) and additionalProperties = the allowUnknown
\* argument of the root call.
C12_ObjectNodes ==
    EmitDone =>
        \A pr \in ObjectPairs(inp.tree, res.doc) :
            LET node == pr[1]
                doc  == pr[2]
            IN  /\ doc.type = "object"
                /\ KeySeq(doc.properties) = KeySeq(node.children)
                /\ IF RequiredNames(node.children) = <<>>
                   THEN ~HasField(doc, "required")
                   ELSE HasField(doc, "required") /\ doc.required = RequiredNames(node.children)
                /\ doc.additionalProperties = inp.allowUnknown
                /\ DOMAIN doc \subseteq {"type", "properties", "required", "additionalProperties"}

\* an object inside array items and a nested object two levels down are emitted
C12_Witness ==
    /\ EmitDone
    /\ inp.allowUnknown
    /\ \E pr \in ObjectPairs(inp.tree, res.doc) :
          /\ pr[1] # inp.tree
          /\ HasField(pr[2], "required")
          /\ Len(pr[2].required) < Len(pr[1].children)
    /\ \E i \in 1..Len(inp.tree.children) :
          /\ inp.tree.children[i].v.type = "array"
          /\ HasField(inp.tree.children[i].v, "items")
          /\ inp.tree.children[i].v.items.type = "object"

\* the non-object nodes of a rule node paired with the schema emitted in their place
RECURSIVE LeafPairs(_, _)
LeafPairs(node, schema) ==
    IF node.type = "object"
    THEN UNION {LeafPairs(node.children[i].v, Get(schema.properties, node.children[i].k)) :
                   i \in 1..Len(node.children)}
    ELSE {<<node, schema>>}
         \cup (IF node.type = "array" /\ HasField(node, "items")
               THEN LeafPairs(node.items, schema.items) ELSE {})

\* facet f of the Rule appears as g exactly when it is set, with its value
FacetAs(node, f, doc, g) ==
    IF HasField(node, f) THEN HasField(doc, g) /\ doc[g] = node[f] ELSE ~HasField(doc, g)

\* the keys a document may carry besides type: those of the facets that are set
KeysOf(node, facets) == {"type"} \cup {fg[2] : fg \in {x \in facets : HasField(node, x[1])}}

-----------------------------------------------------------------------------
(* compileRulesFromMongooseSchema applied to one schema *)

MaxPaths == 2

\* new Schema({ sku: { type: String, required: true }, qty: { type: Number, min: 1 } })
ItemSchema ==
    [hasEachPath |-> TRUE,
     paths |-> << [path |-> <<"sku">>,
                   schematype |-> [instance |-> "String", options |-> [required |-> TRUE]]],
                  [path |-> <<"qty">>,
                   schematype |-> [instance |-> "Number", options |-> [min |-> 1]]] >>]

\* an object without eachPath
BareObject == [hasEachPath |-> FALSE]

\* schematypes of plain paths: [instance, options]
PlainTypes ==
    {[instance |-> "String", options |-> EmptyRecord],
     [instance |-> "String"],
     [instance |-> "String",
      options |-> [required |-> TRUE, minlength |-> 3, maxlength |-> 64]],
     [instance |-> "String",
      options |-> [required |-> FALSE, enum |-> <<"male", "female", "other">>]],
     [instance |-> "String",
      options |-> [match |-> RegExpOf("^[0-9]{10,15}$"), minlength |-> 0]],
     [instance |-> "String", options |-> [match |-> PatternText("^[a-z]+$")]],
     [instance |-> "Number", options |-> [min |-> 13, max |-> 120]],
     [instance |-> "Number", options |-> [required |-> TRUE, min |-> 0]],
     [instance |-> "Decimal128", options |-> [max |-> 100]],
     [instance |-> "Boolean", options |-> [required |-> TRUE]],
     [instance |-> "Date", options |-> [min |-> [day |-> 1], max |-> [day |-> 20]]],
     [instance |-> "Date", options |-> [required |-> TRUE, min |-> [day |-> 0]]],
     [instance |-> "ObjectID", options |-> [required |-> TRUE]],
     [instance |-> "Buffer", options |-> EmptyRecord],
     [instance |-> "Mixed", options |-> [required |-> TRUE]],
     [instance |-> "Map", options |-> [min |-> 1, minlength |-> 2]]}

\* array paths: [instance, options, caster?], and paths carrying a nested schema
NestedTypes ==
    {[instance |-> "Array", options |-> EmptyRecord],
     [instance |-> "Array", options |-> [required |-> TRUE, minItems |-> 1, maxItems |-> 5],
      caster |-> [instance |-> "String", options |-> [minlength |-> 2, maxlength |-> 16]]],
     [instance |-> "Array", options |-> EmptyRecord,
      caster |-> [instance |-> "Number", options |-> [min |-> 0, max |-> 9]]],
     [instance |-> "Array", options |-> EmptyRecord, caster |-> [instance |-> "Date"]],
     \* a single nested subdocument: { type: itemSchema }
     [instance |-> "Embedded", options |-> [required |-> TRUE], schema |-> ItemSchema],
     \* an array of subdocuments: [itemSchema]; the path and its caster both carry the schema
     [instance |-> "Array", options |-> EmptyRecord,
      caster |-> [schema |-> ItemSchema, instance |-> "undefined"], schema |-> ItemSchema],
     [instance |-> "DocumentArray", options |-> [required |-> TRUE],
      caster |-> [schema |-> ItemSchema, instance |-> "undefined"], schema |-> ItemSchema],
     \* nested schemas that cannot be walked
     [instance |-> "Embedded", options |-> EmptyRecord, schema |-> BareObject],
     [instance |-> "Array", options |-> EmptyRecord,
      caster |-> [instance |-> "Mixed", schema |-> BareObject]]}

SchemaTypes == PlainTypes \cup NestedTypes

PathNames == <<<<"f">>, <<"grp", "g">>, <<"grp", "h">>>>

\* the schema of the documentation's round-trip example
RoundTripSchema ==
    [hasEachPath |-> TRUE,
     paths |-> << [path |-> PUsername,
                   schematype |-> [instance |-> "String",
                                   options |-> [required |-> TRUE, minlength |-> 3,
                                                maxlength |-> 64]]],
                  [path |-> PAge,
                   schematype |-> [instance |-> "Number",
                                   options |-> [min |-> 13, max |-> 120]]] >>]

SchemaUniverse ==
    {BareObject, RoundTripSchema}
    \cup {[hasEachPath |-> TRUE,
           paths |-> [i \in 1..n |-> [path |-> PathNames[i], schematype |-> f[i]]]] :
             n \in 1..MaxPaths, f \in [1..MaxPaths -> SchemaTypes]}

InitIntrospect ==
    /\ RegistryInit
    /\ pc = "introspect-call"
    /\ inp \in [schema : SchemaUniverse]
    /\ res = [op |-> "none"]

\* the tree as toJsonSchema emits it, when there is a tree
EmittedFrom(out) == IF out.ok THEN Returned(toJsonSchema(out.val, FALSE)) ELSE Threw

RunIntrospect ==
    /\ pc = "introspect-call"
    /\ res' = [op  |-> "compileRules",
               out |-> compileRulesFromMongooseSchema(inp.schema),
               doc |-> EmittedFrom(compileRulesFromMongooseSchema(inp.schema))]
    /\ pc' = "introspect-done"
    /\ UNCHANGED <<registry, inp>>

NextIntrospect == RunIntrospect

SpecIntrospect == InitIntrospect /\ [][NextIntrospect]_vars

IntrospectDone == pc = "introspect-done"

OptionsOf(st) == IF HasField(st, "options") THEN st.options ELSE EmptyRecord

\* option f of the descriptor is lifted as facet g exactly when it is given
LiftedAs(opts, f, rule, g) ==
    IF HasField(opts, f) THEN HasField(rule, g) /\ rule[g] = opts[f] ELSE ~HasField(rule, g)

FacetsLifted(st, rule) ==
    LET opts == OptionsOf(st)
    IN  CASE rule.type = "string" ->
               /\ LiftedAs(opts, "enum", rule, "enum")
               /\ LiftedAs(opts, "minlength", rule, "minLength")
               /\ LiftedAs(opts, "maxlength", rule, "maxLength")
               /\ IF HasField(opts, "match")
                  THEN /\ HasField(rule, "pattern")
                       /\ rule.pattern.source = opts.match.source
                  ELSE ~HasField(rule, "pattern")
          [] rule.type = "number" ->
               /\ LiftedAs(opts, "min", rule, "min")
               /\ LiftedAs(opts, "max", rule, "max")
          [] rule.type = "date" ->
               /\ IF HasField(opts, "min")
                  THEN HasField(rule, "min") /\ rule.min = opts.min.day * 86400000
                  ELSE ~HasField(rule, "min")
               /\ IF HasField(opts, "max")
                  THEN HasField(rule, "max") /\ rule.max = opts.max.day * 86400000
                  ELSE ~HasField(rule, "max")
          [] OTHER -> TRUE

\* C14: every enumerated field gets a Rule whose type is the kind table's, whose
\* required is the descriptor's flag as a boolean and whose facets are lifted per
\* type; the schema {username: required string 3..64, age: number 13..120} emits
\* required = [username], username = {string, 3, 64}, age = {number, 13, 120}.
C14_IntrospectorTable ==
    (IntrospectDone /\ res.out.ok) =>
        /\ \A i \in 1..Len(inp.schema.paths) :
              LET st   == inp.schema.paths[i].schematype
                  rule == NodeAt(res.out.val, inp.schema.paths[i].path)
              IN  /\ rule.ok
                  /\ rule.val.type = mapInstanceToType(st.instance)
                  /\ rule.val.required
                        = (HasField(OptionsOf(st), "required") /\ OptionsOf(st).required)
                  /\ FacetsLifted(st, rule.val)
        /\ inp.schema = RoundTripSchema =>
              /\ res.doc.val.required = <<"username">>
              /\ Get(res.doc.val.properties, "username")
                    = [type |-> "string", minLength |-> 3, maxLength |-> 64]
              /\ Get(res.doc.val.properties, "age")
                    = [type |-> "number", minimum |-> 13, maximum |-> 120]

-----------------------------------------------------------------------------
(* Failing introspection *)

\* the schema and every nested schema the walk reaches expose eachPath
RECURSIVE Walkable(_)
Walkable(schema) ==
    /\ schema.hasEachPath
    /\ \A i \in 1..Len(schema.paths) :
          LET st == schema.paths[i].schematype
          IN  /\ (/\ mapInstanceToType(st.instance) = "array"
                  /\ HasField(st, "caster")
                  /\ HasField(st.caster, "schema")) => Walkable(st.caster.schema)
              /\ HasField(st, "schema") => Walkable(st.schema)

\* C15: compileRulesFromMongooseSchema, buildAjvValidator and emitJsonSchema
\* called with a schema that (itself or in a nested sub-schema the walk reaches)
\* has no eachPath end with the error, never with a tree, a validator or a document.
C15_IntrospectionErrorSurfaces ==
    (last.op \in {"compileRules", "buildAjvValidator", "emitJsonSchema"}
        /\ last.schema \in ApiSchemas
        /\ ~Walkable(SchemaOf(last.schema)))
    => ~last.ok

\* buildAjvValidator has been called with the schema whose nested schema cannot be walked
C15_Witness ==
    /\ last.op = "buildAjvValidator"
    /\ last.schema = "brokenItemsSchema"
    /\ ~last.ok

-----------------------------------------------------------------------------
(* The validation engine and the function buildAjvValidator returns.         *)
(* The engine is Ajv configured as ajvEngine.js configures it (allErrors,    *)
(* removeAdditional, no coercion); it is modelled for the keywords the        *)
(* emitted documents of this universe carry: type, required, properties,      *)
(* additionalProperties, minLength, maxLength, minimum, maximum.              *)

MaxPayloadProps == 2

JsString(n) == [t |-> "string", len |-> n]

JsNumber(n) == [t |-> "number", n |-> n]

JsNull == [t |-> "null"]

\* a JSON pointer as the engine reports it: "/" before every segment ("" at the root)
PointerTo(ptr, key) == ptr \o <<"/", key>>

AjvError(ptr, keyword, params, message) ==
    [instancePath |-> ptr, keyword |-> keyword, params |-> params, message |-> message]

\* the data has the JSON type the keyword `type` names
TypeMatches(type, data) ==
    CASE type = "object"  -> data.t = "object"
      [] type = "string"  -> data.t = "string"
      [] type = "number"  -> data.t = "number"
      [] type = "boolean" -> data.t = "boolean"
      [] type = "array"   -> data.t = "array"
      [] OTHER            -> FALSE

\* keyword required: one failure per missing property, located at the object
RECURSIVE RequiredErrors(_, _, _, _)
RequiredErrors(required, i, data, ptr) ==
    IF i > Len(required) THEN <<>>
    ELSE (IF Has(data.o, required[i]) THEN <<>>
          ELSE <<AjvError(ptr, "required", [missingProperty |-> required[i]],
                          <<"must have required property", required[i]>>)>>)
         \o RequiredErrors(required, i + 1, data, ptr)

\* the limit keywords of strings and numbers
LimitErrors(schema, data, ptr) ==
    (IF data.t = "string" /\ HasField(schema, "minLength") /\ data.len < schema.minLength
     THEN <<AjvError(ptr, "minLength", [limit |-> schema.minLength],
                     <<"must NOT have fewer characters than", schema.minLength>>)>>
     ELSE <<>>)
    \o (IF data.t = "string" /\ HasField(schema, "maxLength") /\ data.len > schema.maxLength
        THEN <<AjvError(ptr, "maxLength", [limit |-> schema.maxLength],
                        <<"must NOT have more characters than", schema.maxLength>>)>>
        ELSE <<>>)
    \o (IF data.t = "number" /\ HasField(schema, "minimum") /\ data.n < schema.minimum
        THEN <<AjvError(ptr, "minimum", [limit |-> schema.minimum],
                        <<"must be >=", schema.minimum>>)>>
        ELSE <<>>)
    \o (IF data.t = "number" /\ HasField(schema, "maximum") /\ data.n > schema.maximum
        THEN <<AjvError(ptr, "maximum", [limit |-> schema.maximum],
                        <<"must be <=", schema.maximum>>)>>
        ELSE <<>>)

RECURSIVE AjvErrors(_, _, _)
RECURSIVE PropertyErrors(_, _, _, _)

\* keyword properties: each declared property the data holds, validated at its pointer
PropertyErrors(properties, i, data, ptr) ==
    IF i > Len(properties) THEN <<>>
    ELSE (IF Has(data.o, properties[i].k)
          THEN AjvErrors(properties[i].v, Get(data.o, properties[i].k),
                         PointerTo(ptr, properties[i].k))
          ELSE <<>>)
         \o PropertyErrors(properties, i + 1, data, ptr)

\* validateFn.errors after validateFn(data), every failure collected (allErrors)
AjvErrors(schema, data, ptr) ==
    IF HasField(schema, "type") /\ ~TypeMatches(schema.type, data)
    THEN <<AjvError(ptr, "type", [type |-> schema.type], <<"must be", schema.type>>)>>
    ELSE IF data.t = "object"
    THEN (IF HasField(schema, "required")
          THEN RequiredErrors(schema.required, 1, data, ptr) ELSE <<>>)
         \o (IF HasField(schema, "properties")
             THEN PropertyErrors(schema.properties, 1, data, ptr) ELSE <<>>)
    ELSE LimitErrors(schema, data, ptr)

\* removeAdditional: 'all' deletes the undeclared properties from the payload
RECURSIVE AjvStrip(_, _)
RECURSIVE StripProps(_, _, _)
StripProps(properties, entries, i) ==
    IF i > Len(entries) THEN <<>>
    ELSE (IF Has(properties, entries[i].k)
          THEN <<KV(entries[i].k, AjvStrip(Get(properties, entries[i].k), entries[i].v))>>
          ELSE <<>>)
         \o StripProps(properties, entries, i + 1)

AjvStrip(schema, data) ==
    IF /\ data.t = "object"
       /\ HasField(schema, "type") /\ schema.type = "object"
       /\ HasField(schema, "properties")
       /\ HasField(schema, "additionalProperties") /\ ~schema.additionalProperties
    THEN Obj(StripProps(schema.properties, data.o, 1))
    ELSE data

\* validateFn(data): [valid, errors, data as the engine leaves it]
AjvRun(validateFn, data) ==
    [valid  |-> AjvErrors(validateFn.schema, data, <<>>) = <<>>,
     errors |-> AjvErrors(validateFn.schema, data, <<>>),
     data   |-> IF validateFn.removeAdditional = "all"
                THEN AjvStrip(validateFn.schema, data) ELSE data]

\* instancePath.replace(/^\//, '')
StripLeadingSlash(ptr) == IF ptr # <<>> /\ Head(ptr) = "/" THEN Tail(ptr) ELSE ptr

\* .replace(/\//g, '.')
SlashesToDots(text) == [i \in 1..Len(text) |-> IF text[i] = "/" THEN "." ELSE text[i]]

\* e.instancePath?.replace(/^\//, '').replace(/\//g, '.') || e.params?.missingProperty || ''
ErrorField(e) ==
    IF SlashesToDots(StripLeadingSlash(e.instancePath)) # <<>>
    THEN SlashesToDots(StripLeadingSlash(e.instancePath))
    ELSE IF HasField(e.params, "missingProperty") THEN <<e.params.missingProperty>>
    ELSE <<>>

NormalizedErrors(errors) ==
    [i \in 1..Len(errors) |->
        [field |-> ErrorField(errors[i]), error |-> errors[i].keyword,
         message |-> errors[i].message]]

\* a plausible slip: the payload handed back with the failures
ValidatorResult_KeepsData(run) ==
    [ok |-> run.valid, data |-> run.data, errors |-> NormalizedErrors(run.errors)]

\* the function buildAjvValidator returns, given what validateFn(data) did
ValidatorResult(run) ==
    IF ~run.valid
    THEN [ok |-> FALSE, data |-> JsNull, errors |-> NormalizedErrors(run.errors)]
    ELSE [ok |-> TRUE, data |-> run.data, errors |-> <<>>]

-----------------------------------------------------------------------------
(* buildAjvValidator(schema, overrides, options) applied to one payload *)

PayloadEntries ==
    {KV("username", JsString(3)), KV("username", JsString(2)), KV("username", JsNumber(7)),
     KV("age", JsNumber(12)), KV("age", JsNumber(30)),
     KV("address", Obj(<<>>)),
     KV("address", Obj(<<KV("street", JsString(5))>>)),
     KV("address", Obj(<<KV("street", JsNumber(1)), KV("zip", JsString(6))>>)),
     KV("address", JsString(4)),
     KV("password", JsString(8)), KV("password", JsString(4)),
     KV("extra", JsString(1))}

\* payloads: null, a string, and objects of up to MaxPayloadProps properties
Payloads ==
    {JsNull, JsString(3)}
    \cup {Obj(m) : m \in {q \in UNION {[1..n -> PayloadEntries] : n \in 0..MaxPayloadProps} :
                             \A i, j \in 1..Len(q) : i # j => q[i].k # q[j].k}}

ValidateOverrides ==
    {<<>>,
     MkOverrides(Absent, Absent, Absent, Arr(<<PStreet>>), Absent),
     MkOverrides(Absent, Absent, Absent, Absent, Obj(<<KV(PPassword, PwMin8)>>))}

InitValidate ==
    /\ RegistryInit
    /\ pc = "validate-call"
    /\ inp \in [schema : SchemaIds, overrides : ValidateOverrides, options : ApiOptions,
                payload : Payloads]
    /\ res = [op |-> "none"]

\* const validate = buildAjvValidator(schema, overrides, options)
BuildForPayload ==
    /\ pc = "validate-call"
    /\ last.op = "none"
    /\ BuildAjvValidator(inp.schema, inp.overrides, inp.options)

\* validate(payload)
ValidatePayload ==
    /\ pc = "validate-call"
    /\ last.op = "buildAjvValidator"
    /\ last.ok
    /\ res' = [op     |-> "validate",
               run    |-> AjvRun(last.validator, inp.payload),
               result |-> ValidatorResult(AjvRun(last.validator, inp.payload))]
    /\ pc' = "validate-done"
    /\ UNCHANGED <<registry, inp>>

NextValidate == BuildForPayload \/ ValidatePayload

SpecValidate == InitValidate /\ [][NextValidate]_vars

ValidateDone == pc = "validate-done"

\* C16: the returned function yields {ok: true, data: the payload, errors: []}
\* when the engine accepts and {ok: false, data: null, errors: one {field,
\* error, message} entry per engine failure} when it rejects.
C16_ValidatorResultShape ==
    ValidateDone =>
        IF res.run.valid
        THEN res.result = [ok |-> TRUE, data |-> res.run.data, errors |-> <<>>]
        ELSE /\ DOMAIN res.result = {"ok", "data", "errors"}
             /\ res.result.ok = FALSE
             /\ res.result.data = JsNull
             /\ Len(res.result.errors) = Len(res.run.errors)
             /\ \A i \in 1..Len(res.run.errors) :
                   /\ DOMAIN res.result.errors[i] = {"field", "error", "message"}
                   /\ res.result.errors[i].error = res.run.errors[i].keyword
                   /\ res.result.errors[i].message = res.run.errors[i].message

\* a payload with two failures has been rejected
C16_Witness ==
    /\ ValidateDone
    /\ ~res.run.valid
    /\ Len(res.run.errors) >= 2
    /\ inp.payload.t = "object"

\* the segments of a JSON pointer
SegmentsOf(ptr) == [i \in 1..(Len(ptr) \div 2) |-> ptr[2 * i]]

\* segments joined by dots
RECURSIVE Dotted(_)
Dotted(segs) ==
    IF Len(segs) = 0 THEN <<>>
    ELSE IF Len(segs) = 1 THEN segs
    ELSE <<Head(segs), ".">> \o Dotted(Tail(segs))

\* C17: field is the failure location in dot-notation; for a missing required
\* property it is the missing field's name (its own name or its dotted path),
\* at the root and inside a nested object (address.street missing inside address).
C17_ErrorField ==
    ValidateDone =>
        \A i \in 1..Len(res.run.errors) :
            LET e == res.run.errors[i]
                field == res.result.errors[i].field
            IN  IF e.keyword = "required"
                THEN field \in {<<e.params.missingProperty>>,
                                Dotted(Append(SegmentsOf(e.instancePath),
                                              e.params.missingProperty))}
                ELSE field = Dotted(SegmentsOf(e.instancePath))

-----------------------------------------------------------------------------
(* Single introspection *)

\* C18 as stated: whatever buildAjvValidator and emitJsonSchema calls are made
\* with a schema reference, its eachPath is walked by the first of them only.
C18_WalkedByFirstCallOnly ==
    \A s \in ApiSchemas : walks[s] <= 1

\* C18, for a schema whose introspection succeeds: the first call walks the
\* schema and stores the tree, and no later call walks it again.
C18_WalkedOnceWhenIntrospected ==
    \A s \in ApiSchemas :
        Walkable(SchemaOf(s)) =>
            /\ walks[s] <= 1
            /\ walks[s] = 1 <=> ruleTreeCache[s].present

\* two calls with different override keys were served for one schema from one walk
C18_Witness ==
    \E s \in SchemaIds :
        /\ walks[s] = 1
        /\ jsonSchemaCache[s].present
        /\ Cardinality(jsonSchemaCache[s].map) = 2

-----------------------------------------------------------------------------
(* Two compilations interleaved over one shared registry *)

\* Section 5 of the specification considers workers that share the cache
\* storage.  Each worker runs buildAjvValidator or emitJsonSchema; a step is one
\* statement of the function that reads or writes the registry.  Both workers
\* hold the cached rule tree object itself, so applyOverrides of either writes
\* into the tree of both.

Workers == {1, 2}

RaceCalls ==
    [op : {"buildAjvValidator", "emitJsonSchema"},
     overrides : ApiOverrides, options : ApiOptions]

InitRace ==
    /\ RegistryInit
    /\ inp \in [schema : ApiTargets, call : [Workers -> RaceCalls]]
    /\ pc = [w \in Workers |-> "call"]
    /\ res = [w \in Workers |-> [started |-> FALSE]]

AllowUnknownOf(w) == Truthy(Prop(inp.call[w].options, "allowUnknown"))

\* jsCache / vCache of the schema after getJsonSchemaCache / getAjvValidatorCache
BucketCreated(cache, b) == [cache EXCEPT ![b] = [present |-> TRUE, map |-> BucketOf(cache, b)]]

BucketStored(cache, b, key, value) ==
    [cache EXCEPT ![b] = [present |-> TRUE, map |-> Store(BucketOf(cache, b), key, value)]]

RaceTreeCommit(w, got) ==
    /\ ruleTreeCache' = [ruleTreeCache EXCEPT ![inp.schema] = got.entry]
    /\ firstTree' = IF got.fresh THEN [firstTree EXCEPT ![inp.schema] = got.entry]
                    ELSE firstTree
    /\ nextId' = IF got.fresh THEN nextId + 1 ELSE nextId
    /\ walks' = IF got.fresh THEN [walks EXCEPT ![inp.schema] = @ + 1] ELSE walks
    /\ pc' = [pc EXCEPT ![w] = "overrides"]

\* const overrideKey = makeOverrideKey({...overrides, ...options}); in schema
\* mode, const ruleTree = getOrSetRuleTree(schema, compileRulesFromMongooseSchema)
RaceRuleTree(w) ==
    /\ pc[w] = "call"
    /\ res' = [res EXCEPT ![w] =
                  [started |-> TRUE,
                   key |-> makeOverrideKey(SpreadObj(inp.call[w].overrides,
                                                     inp.call[w].options))]]
    /\ IF inp.schema = NoSchema
       THEN /\ pc' = [pc EXCEPT ![w] = "get"]
            /\ UNCHANGED <<ruleTreeCache, firstTree, nextId, walks>>
       ELSE RaceTreeCommit(w, getOrSetRuleTree(inp.schema))
    /\ UNCHANGED <<jsonSchemaCache, ajvValidatorCache, compiled, calls, last, inp>>

RaceApplied(w, run) ==
    /\ ruleTreeCache' = [ruleTreeCache EXCEPT ![inp.schema].tree = run.base]
    /\ IF run.ok
       THEN /\ res' = [res EXCEPT ![w] = @ @@ [effectiveTree |-> run.val]]
            /\ pc' = [pc EXCEPT ![w] = "get"]
       ELSE /\ res' = res
            /\ pc' = [pc EXCEPT ![w] = "threw"]

\* const effectiveTree = applyOverrides(ruleTree, overrides)
RaceApplyOverrides(w) ==
    /\ pc[w] = "overrides"
    /\ RaceApplied(w, applyOverridesRun(ruleTreeCache[inp.schema].tree,
                                        inp.call[w].overrides))
    /\ UNCHANGED <<jsonSchemaCache, ajvValidatorCache, firstTree, compiled, nextId,
                   walks, calls, last, inp>>

\* const jsCache = getJsonSchemaCache(schema); jsonSchema = jsCache.get(overrideKey)
RaceGet(w) ==
    /\ pc[w] = "get"
    /\ jsonSchemaCache' = BucketCreated(jsonSchemaCache, inp.schema)
    /\ LET hit == Lookup(BucketOf(jsonSchemaCache, inp.schema), res[w].key)
       IN  IF hit.ok
           THEN /\ res' = [res EXCEPT ![w] = @ @@ [miss |-> FALSE, doc |-> hit.val]]
                /\ pc' = [pc EXCEPT ![w] = IF inp.call[w].op = "buildAjvValidator"
                                           THEN "vget" ELSE "done"]
           ELSE /\ res' = [res EXCEPT ![w] = @ @@ [miss |-> TRUE]]
                /\ pc' = [pc EXCEPT ![w] = "set"]
    /\ UNCHANGED <<ruleTreeCache, ajvValidatorCache, firstTree, compiled, nextId,
                   walks, calls, last, inp>>

\* if (!jsonSchema) { jsonSchema = toJsonSchema(effectiveTree, ...) or
\* jsonSchemaFromOverrides(overrides, ...); jsCache.set(overrideKey, jsonSchema) }
RaceSet(w) ==
    /\ pc[w] = "set"
    /\ LET js == IF inp.schema = NoSchema
                 THEN jsonSchemaFromOverrides(inp.call[w].overrides, AllowUnknownOf(w))
                 ELSE toJsonSchema(res[w].effectiveTree, AllowUnknownOf(w))
       IN  /\ jsonSchemaCache' =
                  BucketStored(jsonSchemaCache, inp.schema, res[w].key, js)
           /\ res' = [res EXCEPT ![w] = @ @@ [doc |-> js]]
    /\ pc' = [pc EXCEPT ![w] = IF inp.call[w].op = "buildAjvValidator"
                               THEN "vget" ELSE "done"]
    /\ UNCHANGED <<ruleTreeCache, ajvValidatorCache, firstTree, compiled, nextId,
                   walks, calls, last, inp>>

\* const vCache = getAjvValidatorCache(schema); validateFn = vCache.get(overrideKey)
RaceValidatorGet(w) ==
    /\ pc[w] = "vget"
    /\ ajvValidatorCache' = BucketCreated(ajvValidatorCache, inp.schema)
    /\ LET hit == Lookup(BucketOf(ajvValidatorCache, inp.schema), res[w].key)
       IN  IF hit.ok
           THEN /\ res' = [res EXCEPT ![w] = @ @@ [vmiss |-> FALSE, validator |-> hit.val]]
                /\ pc' = [pc EXCEPT ![w] = "done"]
           ELSE /\ res' = [res EXCEPT ![w] = @ @@ [vmiss |-> TRUE]]
                /\ pc' = [pc EXCEPT ![w] = "vset"]
    /\ UNCHANGED <<ruleTreeCache, jsonSchemaCache, firstTree, compiled, nextId,
                   walks, calls, last, inp>>

\* if (!validateFn) { validateFn = ajv.compile(jsonSchema); vCache.set(overrideKey, validateFn) }
RaceValidatorSet(w) ==
    /\ pc[w] = "vset"
    /\ LET validateFn == AjvCompile(res[w].doc, inp.call[w].options)
       IN  /\ ajvValidatorCache' =
                  BucketStored(ajvValidatorCache, inp.schema, res[w].key, validateFn)
           /\ res' = [res EXCEPT ![w] = @ @@ [validator |-> validateFn]]
    /\ pc' = [pc EXCEPT ![w] = "done"]
    /\ UNCHANGED <<ruleTreeCache, jsonSchemaCache, firstTree, compiled, nextId,
                   walks, calls, last, inp>>

NextRace ==
    \/ \E w \in Workers : RaceRuleTree(w)
    \/ \E w \in Workers : RaceApplyOverrides(w)
    \/ \E w \in Workers : RaceGet(w)
    \/ \E w \in Workers : RaceSet(w)
    \/ \E w \in Workers : RaceValidatorGet(w)
    \/ \E w \in Workers : RaceValidatorSet(w)

SpecRace == InitRace /\ [][NextRace]_vars

\* the document one call alone stores, starting from the empty registry
UncontendedDocument(s, call) ==
    IF s = NoSchema
    THEN Returned(jsonSchemaFromOverrides(call.overrides,
                                          Truthy(Prop(call.options, "allowUnknown"))))
    ELSE UncachedDocument(s, call.overrides, call.options)

\* both workers looked the same key up, both missed, and both have stored
BothMissedAndStored ==
    /\ \A w \in Workers : pc[w] \in {"vget", "vset", "done"} /\ res[w].miss
    /\ res[1].key = res[2].key

\* C19: when both compilations miss the same OverrideKey before either stores,
\* both compute equal documents and the entry left under the key is the one a
\* single uncontended call stores.
C19_RaceIsIdempotent ==
    BothMissedAndStored =>
        /\ res[1].doc = res[2].doc
        /\ \A w \in Workers :
               Lookup(BucketOf(jsonSchemaCache, inp.schema), res[w].key)
                   = UncontendedDocument(inp.schema, inp.call[w])

-----------------------------------------------------------------------------
(* parsePagination *)

\* A JS number as a fraction num/den with den > 0; den = 0 stands for NaN.
Frac(num, den) == [num |-> num, den |-> den]

NaN == Frac(0, 0)

IsNaN(x) == x.den = 0

FracEq(x, y) == ~IsNaN(x) /\ ~IsNaN(y) /\ x.num * y.den = y.num * x.den

FracLess(x, y) == x.num * y.den < y.num * x.den

IsInteger(x) == ~IsNaN(x) /\ x.num % x.den = 0

FracMinus(x, y) == Frac(x.num * y.den - y.num * x.den, x.den * y.den)

FracTimes(x, y) == Frac(x.num * y.num, x.den * y.den)

\* Math.max / Math.min on numbers that are not NaN
MathMax(x, y) == IF FracLess(x, y) THEN y ELSE x

MathMin(x, y) == IF FracLess(y, x) THEN y ELSE x

DefaultPage == 1

DefaultPageSize == 20

MaxPageSize == 200

\* the strings of the universe that Number() reads as a number
NumericText ==
    {KV("", Frac(0, 1)), KV("0", Frac(0, 1)), KV("2", Frac(2, 1)), KV("-3", Frac(-3, 1)),
     KV("2.5", Frac(5, 2)), KV("10.5", Frac(21, 2)), KV("500", Frac(500, 1))}

\* Number(v) for a number, a string or null
ToNumber(v) ==
    CASE v.t = "number" -> v.num
      [] v.t = "null"   -> Frac(0, 1)
      [] v.t = "string" -> IF \E e \in NumericText : e.k = v.text
                           THEN (CHOOSE e \in NumericText : e.k = v.text).v
                           ELSE NaN

\* x || d on a number: NaN and 0 are falsy
OrElse(x, d) == IF IsNaN(x) \/ x.num = 0 THEN d ELSE x

\* the parameter default `page = 1`, `pageSize = 20`: used for undefined only
DefaultedTo(v, d) == IF v.t = "undefined" THEN [t |-> "number", num |-> Frac(d, 1)] ELSE v

PageOf(page) ==
    MathMax(Frac(1, 1), OrElse(ToNumber(DefaultedTo(page, DefaultPage)), Frac(1, 1)))

PageSizeOf(pageSize) ==
    MathMax(Frac(1, 1),
            MathMin(Frac(MaxPageSize, 1),
                    OrElse(ToNumber(DefaultedTo(pageSize, DefaultPageSize)), Frac(20, 1))))

parsePagination(page, pageSize) ==
    [page     |-> PageOf(page),
     pageSize |-> PageSizeOf(pageSize),
     skip     |-> FracTimes(FracMinus(PageOf(page), Frac(1, 1)), PageSizeOf(pageSize)),
     limit    |-> PageSizeOf(pageSize)]

NumberInputs ==
    {[t |-> "number", num |-> Frac(n, 1)] : n \in {-2, 0, 1, 2, 3, 20, 200, 201}}
    \cup {[t |-> "number", num |-> Frac(1, 2)], [t |-> "number", num |-> Frac(5, 2)],
          [t |-> "number", num |-> Frac(-3, 2)], [t |-> "number", num |-> NaN]}

StringInputs ==
    {[t |-> "string", text |-> x] : x \in {"", "0", "2", "-3", "2.5", "10.5", "500", "abc"}}

PaginationInputs == NumberInputs \cup StringInputs \cup {Undef, [t |-> "null"]}

InitPagination ==
    /\ RegistryInit
    /\ inp \in [page : PaginationInputs, pageSize : PaginationInputs]
    /\ pc = "pagination-call"
    /\ res = [op |-> "none"]

RunPagination ==
    /\ pc = "pagination-call"
    /\ res' = [op |-> "parsePagination", out |-> parsePagination(inp.page, inp.pageSize)]
    /\ pc' = "pagination-done"
    /\ UNCHANGED <<registry, inp>>

NextPagination == RunPagination

SpecPagination == InitPagination /\ [][NextPagination]_vars

PaginationDone == pc = "pagination-done"

\* an input that is absent or that Number() does not read as a number
NotNumeric(v) == v.t = "undefined" \/ (v.t # "undefined" /\ IsNaN(ToNumber(v)))

\* C20: whatever page and pageSize are, parsePagination returns an integer
\* page >= 1, an integer pageSize between 1 and 200, skip = (page - 1) * pageSize
\* >= 0 and limit = pageSize; absent or non-numeric inputs give page 1 and
\* pageSize 20.
C20_PaginationBounds ==
    PaginationDone =>
        /\ IsInteger(res.out.page)
        /\ ~FracLess(res.out.page, Frac(1, 1))
        /\ IsInteger(res.out.pageSize)
        /\ ~FracLess(res.out.pageSize, Frac(1, 1))
        /\ ~FracLess(Frac(200, 1), res.out.pageSize)
        /\ FracEq(res.out.skip,
                  FracTimes(FracMinus(res.out.page, Frac(1, 1)), res.out.pageSize))
        /\ ~FracLess(res.out.skip, Frac(0, 1))
        /\ FracEq(res.out.limit, res.out.pageSize)
        /\ NotNumeric(inp.page) => FracEq(res.out.page, Frac(1, 1))
        /\ NotNumeric(inp.pageSize) => FracEq(res.out.pageSize, Frac(20, 1))

-----------------------------------------------------------------------------
(* buildProjection *)

MaxFields == 2

QueryFields == {"age", "city", "phone"}

\* the arrays of field names of up to MaxFields entries
FieldLists == UNION {[1..n -> QueryFields] : n \in 0..MaxFields}

RECURSIVE MarkEach(_, _, _, _)
\* list.forEach((f) => (proj[f] = mark))
MarkEach(proj, list, i, mark) ==
    IF i > Len(list) THEN proj
    ELSE MarkEach(Put(proj, list[i], mark), list, i + 1, mark)

\* the parameter defaults `include = []`, `exclude = []`
ListOrEmpty(v) == IF v.t = "undefined" THEN <<>> ELSE v.a

buildProjection(include, exclude) ==
    MarkEach(MarkEach(<<>>, ListOrEmpty(include), 1, 1), ListOrEmpty(exclude), 1, 0)

ProjectionInputs == {Arr(l) : l \in FieldLists} \cup {Undef}

InitProjection ==
    /\ RegistryInit
    /\ inp \in [include : ProjectionInputs, exclude : ProjectionInputs]
    /\ pc = "projection-call"
    /\ res = [op |-> "none"]

RunProjection ==
    /\ pc = "projection-call"
    /\ res' = [op |-> "buildProjection", out |-> buildProjection(inp.include, inp.exclude)]
    /\ pc' = "projection-done"
    /\ UNCHANGED <<registry, inp>>

NextProjection == RunProjection

SpecProjection == InitProjection /\ [][NextProjection]_vars

\* the projection holds exactly the fields of `list`, each mapped to `mark`
MapsExactly(proj, list, mark) ==
    /\ KeySet(proj) = SeqToSet(list)
    /\ \A i \in 1..Len(proj) : proj[i].v = mark

\* C21: a non-empty include gives the projection of exactly the include fields
\* to 1; an empty include with a non-empty exclude gives exactly the exclude
\* fields mapped to 0; both empty give {}.
C21_ProjectionModes ==
    pc = "projection-done" =>
        LET include == ListOrEmpty(inp.include)
            exclude == ListOrEmpty(inp.exclude)
        IN  /\ include # <<>> => MapsExactly(res.out, include, 1)
            /\ include = <<>> /\ exclude # <<>> => MapsExactly(res.out, exclude, 0)
            /\ include = <<>> /\ exclude = <<>> => res.out = <<>>

-----------------------------------------------------------------------------
(* applySortToArray *)

MaxItems == 3

Nullish(v) == v.t = "null" \/ v.t = "undefined"

\* a plausible slip: null/undefined ordered before every other value
compareValues_NullishFirst(a, b) ==
    IF a = b THEN 0
    ELSE IF Nullish(a) /\ ~Nullish(b) THEN -1
    ELSE IF ~Nullish(a) /\ Nullish(b) THEN 1
    ELSE IF Nullish(a) /\ Nullish(b) THEN 0
    ELSE IF a.n < b.n THEN -1 ELSE IF a.n > b.n THEN 1 ELSE 0

\* compareValues on numbers, null and undefined
compareValues(a, b) ==
    IF a = b THEN 0
    ELSE IF Nullish(a) /\ ~Nullish(b) THEN 1
    ELSE IF ~Nullish(a) /\ Nullish(b) THEN -1
    ELSE IF Nullish(a) /\ Nullish(b) THEN 0
    ELSE IF a.n < b.n THEN -1 ELSE IF a.n > b.n THEN 1 ELSE 0

RECURSIVE SortComparator(_, _, _, _)
\* the comparator handed to copy.sort: the first field that tells a from b decides
SortComparator(a, b, sortEntries, i) ==
    IF i > Len(sortEntries) THEN 0
    ELSE IF compareValues(a[sortEntries[i].k], b[sortEntries[i].k]) # 0
         THEN IF sortEntries[i].v = 1
              THEN compareValues(a[sortEntries[i].k], b[sortEntries[i].k])
              ELSE 0 - compareValues(a[sortEntries[i].k], b[sortEntries[i].k])
         ELSE SortComparator(a, b, sortEntries, i + 1)

RECURSIVE InsertStable(_, _, _, _)
\* x placed behind every element of `sorted` that does not compare greater
InsertStable(sorted, x, sortEntries, i) ==
    IF i = 0 \/ SortComparator(sorted[i], x, sortEntries, 1) <= 0
    THEN SubSeq(sorted, 1, i) \o <<x>> \o SubSeq(sorted, i + 1, Len(sorted))
    ELSE InsertStable(sorted, x, sortEntries, i - 1)

RECURSIVE ArraySort(_, _, _, _)
\* Array.prototype.sort with a comparator: a stable sort
ArraySort(items, sortEntries, i, sorted) ==
    IF i > Len(items) THEN sorted
    ELSE ArraySort(items, sortEntries, i + 1,
                   InsertStable(sorted, items[i], sortEntries, Len(sorted)))

\* [items after the call, the returned array]
applySortToArray(items, sort) ==
    [items |-> items,
     out   |-> IF Len(sort) = 0 THEN items ELSE ArraySort(items, sort, 1, <<>>)]

SortItems ==
    [age : {JsNumber(1), JsNumber(2), JsNull, Undef}, city : {JsNumber(1), JsNumber(2)}]

SortFields == {"age", "city"}

SortSpecs ==
    {<<>>}
    \cup {<<KV(f, d)>> : f \in SortFields, d \in {1, -1}}
    \cup {<<KV(f, d), KV(g, e)>> : f \in SortFields, g \in SortFields, d \in {1, -1}, e \in {1, -1}}

InitSort ==
    /\ RegistryInit
    /\ inp \in [items : UNION {[1..n -> SortItems] : n \in 0..MaxItems},
                sort : {x \in SortSpecs : Len(x) < 2 \/ x[1].k # x[2].k}]
    /\ pc = "sort-call"
    /\ res = [op |-> "none"]

RunSort ==
    /\ pc = "sort-call"
    /\ res' = [op |-> "applySortToArray"] @@ applySortToArray(inp.items, inp.sort)
    /\ pc' = "sort-done"
    /\ UNCHANGED <<registry, inp>>

NextSort == RunSort

SpecSort == InitSort /\ [][NextSort]_vars

SeqToBag(q) == [x \in SeqToSet(q) |-> Cardinality({i \in 1..Len(q) : q[i] = x})]

\* x may stand before y under direction dir of one field: in ascending order
\* smaller numbers first and null/undefined last, in descending order larger
\* numbers first
InOrder(x, y, dir) ==
    \/ x = y
    \/ Nullish(x) /\ Nullish(y)
    \/ dir = 1 /\ ~Nullish(x) /\ (Nullish(y) \/ x.n < y.n)
    \/ dir = -1 /\ (Nullish(x) \/ Nullish(y) \/ x.n > y.n)

Tied(x, y) == x = y \/ (Nullish(x) /\ Nullish(y))

\* a may stand before b: at the first field that tells them apart they are in order
Ordered(a, b, sort) ==
    \A i \in 1..Len(sort) :
        (\A j \in 1..(i - 1) : Tied(a[sort[j].k], b[sort[j].k]))
            => InOrder(a[sort[i].k], b[sort[i].k], sort[i].v)

\* C22: applySortToArray returns a permutation of items, leaves items as they
\* were, and the result is ordered by the sort fields in the order given,
\* ascending for 1 and descending for -1, later fields breaking ties, with
\* null/undefined behind every other value in ascending order.
C22_SortedPermutation ==
    pc = "sort-done" =>
        /\ SeqToBag(res.out) = SeqToBag(inp.items)
        /\ Len(res.out) = Len(inp.items)
        /\ res.items = inp.items
        /\ \A i \in 1..Len(res.out), j \in 1..Len(res.out) :
               i < j => Ordered(res.out[i], res.out[j], inp.sort)

\* a two-field sort that moved a null behind a number and broke a tie by the second field
C22_Witness ==
    /\ pc = "sort-done"
    /\ Len(inp.sort) = 2
    /\ inp.sort[1] = KV("age", 1)
    /\ res.out # inp.items
    /\ Len(res.out) = 3
    /\ Nullish(res.out[3].age)
    /\ res.out[1].age = res.out[2].age
    /\ res.out[1].city # res.out[2].city

-----------------------------------------------------------------------------
(* applyFilterToArray *)

JsText(x) == [t |-> "string", text |-> x]

RegExpValue(source, flags) == [t |-> "regexp", source |-> source, flags |-> flags]

\* the texts a pattern of the universe is found in, without and with the i flag
PatternFinds ==
    {<<"ali", "", "alice">>, <<"ali", "i", "alice">>, <<"ali", "i", "Alice">>,
     <<"^A", "", "Alice">>, <<"^A", "i", "Alice">>, <<"^A", "i", "alice">>}

\* String(val ?? '') for a text, null or undefined; numbers print as digits,
\* which no pattern of the universe is found in
StringOf(val) == IF val.t = "string" THEN val.text ELSE ""

\* re.test(text)
RegExpTest(re, text) == <<re.source, re.flags, text>> \in PatternFinds

\* expr.$regex instanceof RegExp ? expr.$regex : new RegExp(expr.$regex)
AsRegExp(v) == IF v.t = "regexp" THEN v ELSE RegExpValue(v.text, "")

\* !!x && typeof x === 'object' && op in x
HasOperator(expr, op) == expr.t = "object" /\ Has(expr.o, op)

isExistsOperator(expr) == HasOperator(expr, "$exists")

isRangeOperator(expr) == HasOperator(expr, "$gte") \/ HasOperator(expr, "$lte")

isInOperator(expr) == HasOperator(expr, "$in") /\ Get(expr.o, "$in").t = "array"

isRegexOperator(expr) == HasOperator(expr, "$regex")

\* the number a relational operator reads an operand as; undefined and texts
\* that are no numerals read as NaN
RelationalNumber(v) ==
    CASE v.t = "number" -> Returned(v.n)
      [] v.t = "null"   -> Returned(0)
      [] OTHER          -> Threw

\* gte(a, b): a >= b
gte(a, b) ==
    /\ RelationalNumber(a).ok
    /\ RelationalNumber(b).ok
    /\ RelationalNumber(a).val >= RelationalNumber(b).val

\* lte(a, b): a <= b
lte(a, b) ==
    /\ RelationalNumber(a).ok
    /\ RelationalNumber(b).ok
    /\ RelationalNumber(a).val <= RelationalNumber(b).val

\* expr.$gte != null, expr.$lte != null
BoundGiven(expr, op) == Has(expr.o, op) /\ ~Nullish(Get(expr.o, op))

\* a plausible slip: $exists: false read like $exists: true
ExistsMatch_AlwaysTrue(val, expr) == ~Nullish(val)

ExistsMatch(val, expr) ==
    IF Truthy(Get(expr.o, "$exists")) THEN ~Nullish(val) ELSE Nullish(val)

RangeMatch(val, expr) ==
    /\ BoundGiven(expr, "$gte") => gte(val, Get(expr.o, "$gte"))
    /\ BoundGiven(expr, "$lte") => lte(val, Get(expr.o, "$lte"))

fieldMatch(item, key, expr) ==
    IF expr.t = "undefined" THEN TRUE
    ELSE IF isExistsOperator(expr) THEN ExistsMatch(item[key], expr)
    ELSE IF isRangeOperator(expr) THEN RangeMatch(item[key], expr)
    ELSE IF isInOperator(expr) THEN item[key] \in SeqToSet(Get(expr.o, "$in").a)
    ELSE IF isRegexOperator(expr)
         THEN RegExpTest(AsRegExp(Get(expr.o, "$regex")), StringOf(item[key]))
    ELSE item[key] = expr

\* Object.entries(cond).every(([field, expr]) => fieldMatch(item, field, expr))
BranchMatch(item, cond) ==
    \A i \in 1..Len(cond) : fieldMatch(item, cond[i].k, cond[i].v)

\* Array.isArray(f.$or) && f.$or.length > 0
OrGiven(f) == Has(f, "$or") /\ Get(f, "$or").t = "array" /\ Len(Get(f, "$or").a) > 0

match(item, f) ==
    /\ OrGiven(f) => \E b \in 1..Len(Get(f, "$or").a) : BranchMatch(item, Get(f, "$or").a[b])
    /\ \A i \in 1..Len(f) : f[i].k # "$or" => fieldMatch(item, f[i].k, f[i].v)

\* [items after the call, the returned array]
applyFilterToArray(items, filter) ==
    [items |-> items, out |-> SelectSeq(items, LAMBDA i : match(i, filter))]

MaxFilterItems == 2

FilterItems ==
    [age : {JsNumber(1), JsNumber(3), JsNull, Undef}, name : {JsText("alice"), JsText("Alice")}]

FilterItemLists == UNION {[1..n -> FilterItems] : n \in 0..MaxFilterItems}

\* a condition that holds a range together with $exists
RangeAndExists == Obj(<<KV("$gte", JsNumber(3)), KV("$exists", Bool(TRUE))>>)

AgeConditions ==
    {JsNumber(1), JsNull, Undef,
     Obj(<<KV("$exists", Bool(TRUE))>>), Obj(<<KV("$exists", Bool(FALSE))>>),
     Obj(<<KV("$gte", JsNumber(3))>>), Obj(<<KV("$lte", JsNumber(1))>>),
     Obj(<<KV("$gte", JsNumber(1)), KV("$lte", JsNumber(1))>>),
     Obj(<<KV("$in", Arr(<<JsNumber(3), JsNull>>))>>),
     RangeAndExists}

NameConditions ==
    {JsText("alice"),
     Obj(<<KV("$regex", RegExpValue("ali", "i"))>>),
     Obj(<<KV("$regex", JsText("^A"))>>)}

OrLists ==
    {Arr(<<>>),
     Arr(<<<<KV("age", JsNumber(1))>>,
           <<KV("name", Obj(<<KV("$regex", RegExpValue("ali", ""))>>))>>>>),
     Arr(<<<<KV("age", Obj(<<KV("$gte", JsNumber(3))>>)), KV("name", JsText("Alice"))>>>>)}

\* the filters with an optional condition on age, on name, and an optional $or
FilterUniverse ==
    {a \o n \o o :
        a \in {<<>>} \cup {<<KV("age", c)>> : c \in AgeConditions},
        n \in {<<>>} \cup {<<KV("name", c)>> : c \in NameConditions},
        o \in {<<>>} \cup {<<KV("$or", l)>> : l \in OrLists}}

InitFilter ==
    /\ RegistryInit
    /\ inp \in [items : FilterItemLists, filter : FilterUniverse]
    /\ pc = "filter-call"
    /\ res = [op |-> "none"]

RunFilter ==
    /\ pc = "filter-call"
    /\ res' = [op |-> "applyFilterToArray"] @@ applyFilterToArray(inp.items, inp.filter)
    /\ pc' = "filter-done"
    /\ UNCHANGED <<registry, inp>>

NextFilter == RunFilter

SpecFilter == InitFilter /\ [][NextFilter]_vars

\* the operators a condition holds, among $exists, range, $in and $regex
KindsOf(expr) ==
    IF expr.t # "object" THEN {}
    ELSE {k \in {"$exists", "$in", "$regex"} : Has(expr.o, k)}
         \cup (IF Has(expr.o, "$gte") \/ Has(expr.o, "$lte") THEN {"range"} ELSE {})

OneKind(expr) == Cardinality(KindsOf(expr)) <= 1

\* every condition of the filter, in $or branches too, is of one kind
OneKindFilter(f) ==
    \A i \in 1..Len(f) :
        IF f[i].k = "$or"
        THEN \A b \in 1..Len(f[i].v.a) :
                 \A j \in 1..Len(f[i].v.a[b]) : OneKind(f[i].v.a[b][j].v)
        ELSE OneKind(f[i].v)

NumberAtLeast(val, bound) ==
    \/ val.t = "number" /\ val.n >= bound.n
    \/ val.t = "null" /\ 0 >= bound.n

NumberAtMost(val, bound) ==
    \/ val.t = "number" /\ val.n <= bound.n
    \/ val.t = "null" /\ 0 <= bound.n

\* the condition of one kind, as the sentence reads it; an undefined value is no condition
ConditionHolds(val, expr) ==
    CASE expr.t = "undefined" -> TRUE
      [] KindsOf(expr) = {"$exists"} ->
             (val.t \notin {"null", "undefined"}) <=> Get(expr.o, "$exists").b
      [] KindsOf(expr) = {"range"} ->
             /\ Has(expr.o, "$gte") => NumberAtLeast(val, Get(expr.o, "$gte"))
             /\ Has(expr.o, "$lte") => NumberAtMost(val, Get(expr.o, "$lte"))
      [] KindsOf(expr) = {"$in"} ->
             \E i \in 1..Len(Get(expr.o, "$in").a) : Get(expr.o, "$in").a[i] = val
      [] KindsOf(expr) = {"$regex"} ->
             LET re == Get(expr.o, "$regex")
             IN  <<IF re.t = "regexp" THEN re.source ELSE re.text,
                   IF re.t = "regexp" THEN re.flags ELSE "",
                   IF val.t = "string" THEN val.text ELSE "">> \in PatternFinds
      [] OTHER -> val = expr

ShouldKeep(item, f) ==
    /\ \/ ~Has(f, "$or")
       \/ Get(f, "$or").a = <<>>
       \/ \E b \in 1..Len(Get(f, "$or").a) :
              \A j \in 1..Len(Get(f, "$or").a[b]) :
                  ConditionHolds(item[Get(f, "$or").a[b][j].k], Get(f, "$or").a[b][j].v)
    /\ \A i \in 1..Len(f) : f[i].k # "$or" => ConditionHolds(item[f[i].k], f[i].v)

-----------------------------------------------------------------------------
(* buildFilter, and its filter handed to applyFilterToArray *)

RECURSIVE AssignEach(_, _, _)
\* Object.assign(f, params.equals)
AssignEach(f, entries, i) ==
    IF i > Len(entries) THEN f
    ELSE AssignEach(Put(f, entries[i].k, entries[i].v), entries, i + 1)

RECURSIVE InEach(_, _, _)
\* f[field] = { $in: arr }
InEach(f, entries, i) ==
    IF i > Len(entries) THEN f
    ELSE InEach(Put(f, entries[i].k, Obj(<<KV("$in", entries[i].v)>>)), entries, i + 1)

\* const o = {}; if (r.gte != null) o.$gte = r.gte; if (r.lte != null) o.$lte = r.lte
RangeObject(r) ==
    Obj((IF Has(r.o, "gte") /\ ~Nullish(Get(r.o, "gte"))
         THEN <<KV("$gte", Get(r.o, "gte"))>> ELSE <<>>)
        \o (IF Has(r.o, "lte") /\ ~Nullish(Get(r.o, "lte"))
            THEN <<KV("$lte", Get(r.o, "lte"))>> ELSE <<>>))

RECURSIVE RangeEach(_, _, _)
RangeEach(f, entries, i) ==
    IF i > Len(entries) THEN f
    ELSE RangeEach(Put(f, entries[i].k, RangeObject(entries[i].v)), entries, i + 1)

\* params.search?.q && params.search.fields?.length
SearchGiven(search) == search.t = "object" /\ search.q # "" /\ Len(search.fields) > 0

\* f.$or = fields.map((field) => ({ [field]: { $regex: regex } })) with
\* regex = new RegExp(q, caseInsensitive !== false ? 'i' : undefined)
SearchOr(search) ==
    Arr([i \in 1..Len(search.fields) |->
            <<KV(search.fields[i],
                 Obj(<<KV("$regex",
                          RegExpValue(search.q,
                                      IF search.caseInsensitive = Bool(FALSE)
                                      THEN "" ELSE "i"))>>))>>])

\* { ...(f[field] || {}) }: an object spreads its entries, a number or a missing entry nothing
SpreadOfEntry(f, field) ==
    IF Has(f, field) /\ Get(f, field).t = "object" THEN Get(f, field).o ELSE <<>>

RECURSIVE ExistsEach(_, _, _, _)
\* f[field] = { ...(f[field] || {}), $exists: flag }
ExistsEach(f, fields, i, flag) ==
    IF i > Len(fields) THEN f
    ELSE ExistsEach(Put(f, fields[i],
                        Obj(Put(SpreadOfEntry(f, fields[i]), "$exists", Bool(flag)))),
                    fields, i + 1, flag)

RECURSIVE RegexEach(_, _, _)
\* f[field] = { $regex: new RegExp(pattern, options) }
RegexEach(f, entries, i) ==
    IF i > Len(entries) THEN f
    ELSE RegexEach(Put(f, entries[i].k,
                       Obj(<<KV("$regex",
                                RegExpValue(Get(entries[i].v.o, "pattern").text,
                                            IF Has(entries[i].v.o, "options")
                                            THEN Get(entries[i].v.o, "options").text
                                            ELSE ""))>>)),
                   entries, i + 1)

AfterRange(params) ==
    RangeEach(InEach(AssignEach(<<>>, EntriesOrEmpty(params.equals), 1),
                     EntriesOrEmpty(params.in), 1),
              EntriesOrEmpty(params.range), 1)

AfterSearch(params, f) ==
    IF SearchGiven(params.search) THEN Put(f, "$or", SearchOr(params.search)) ELSE f

buildFilter(params) ==
    RegexEach(ExistsEach(ExistsEach(AfterSearch(params, AfterRange(params)),
                                    ArrOrEmpty(params.exists), 1, TRUE),
                         ArrOrEmpty(params.notExists), 1, FALSE),
              EntriesOrEmpty(params.regex), 1)

SearchParams(ci) ==
    [t |-> "object", q |-> "ali", fields |-> <<"name">>, caseInsensitive |-> ci]

FilterParams ==
    [equals    : {Undef, Obj(<<KV("age", JsNumber(1))>>)},
     in        : {Undef, Obj(<<KV("age", Arr(<<JsNumber(3), JsNull>>))>>)},
     range     : {Undef, Obj(<<KV("age", Obj(<<KV("gte", JsNumber(3))>>))>>),
                  Obj(<<KV("age", Obj(<<KV("gte", JsNumber(1)), KV("lte", JsNumber(1))>>))>>)},
     search    : {Undef, SearchParams(Undef), SearchParams(Bool(FALSE))},
     exists    : {Undef, Arr(<<"age">>), Arr(<<"name">>)},
     notExists : {Undef, Arr(<<"age">>)},
     regex     : {Undef, Obj(<<KV("name", Obj(<<KV("pattern", JsText("^A"))>>))>>)}]

InitBuildFilter ==
    /\ RegistryInit
    /\ inp \in [items : FilterItemLists, params : FilterParams]
    /\ pc = "build-filter-call"
    /\ res = [op |-> "none"]

RunBuildFilter ==
    /\ pc = "build-filter-call"
    /\ res' = [op |-> "buildFilter", filter |-> buildFilter(inp.params)]
    /\ pc' = "built-filter-call"
    /\ UNCHANGED <<registry, inp>>

RunBuiltFilter ==
    /\ pc = "built-filter-call"
    /\ res' = [op |-> "applyFilterToArray", filter |-> res.filter]
              @@ applyFilterToArray(inp.items, res.filter)
    /\ pc' = "built-filter-done"
    /\ UNCHANGED <<registry, inp>>

NextBuildFilter == RunBuildFilter \/ RunBuiltFilter

SpecBuildFilter == InitBuildFilter /\ [][NextBuildFilter]_vars

\* the range macro's bounds for a field hold of a value
InRange(val, r) ==
    /\ Has(r.o, "gte") => NumberAtLeast(val, Get(r.o, "gte"))
    /\ Has(r.o, "lte") => NumberAtMost(val, Get(r.o, "lte"))

Listed(field, list) == list.t = "array" /\ field \in SeqToSet(list.a)

\* C30: when buildFilter is given a range and an exists / notExists macro for
\* one field, applyFilterToArray keeps an item only if its value is within the
\* range and meets the existence condition.
C30_RangeAndExistsBothHonoured ==
    pc = "built-filter-done" =>
        \A f \in {"age", "name"} :
            (inp.params.range.t = "object" /\ Has(inp.params.range.o, f)
             /\ (Listed(f, inp.params.exists) \/ Listed(f, inp.params.notExists)))
            => \A i \in 1..Len(res.out) :
                   /\ InRange(res.out[i][f], Get(inp.params.range.o, f))
                   /\ IF Listed(f, inp.params.notExists)
                      THEN res.out[i][f].t \in {"null", "undefined"}
                      ELSE res.out[i][f].t \notin {"null", "undefined"}

-----------------------------------------------------------------------------
(* PolicyPipeline *)

MaxHooks == 2

HookNames ==
    {"beforeCreate", "afterCreate", "beforeUpdate", "afterUpdate", "beforeDelete", "afterDelete"}

\* what a configured hook does when called: return, throw, or return a promise
\* that is fulfilled or rejected later
HookBehaviours == {"returns", "throws", "resolves", "rejects"}

\* the run* methods: the hook each one reads and the parameters it declares
RunMethods ==
    {[name |-> "runBeforeCreate", hook |-> "beforeCreate", arity |-> 1],
     [name |-> "runAfterCreate",  hook |-> "afterCreate",  arity |-> 2],
     [name |-> "runBeforeUpdate", hook |-> "beforeUpdate", arity |-> 1],
     [name |-> "runAfterUpdate",  hook |-> "afterUpdate",  arity |-> 2],
     [name |-> "runBeforeDelete", hook |-> "beforeDelete", arity |-> 1],
     [name |-> "runAfterDelete",  hook |-> "afterDelete",  arity |-> 1]}

\* constructor(private hooks: PolicyHooks = {}) with at most MaxHooks hooks configured
HookConfigs ==
    {h \in [HookNames -> HookBehaviours \cup {"none"}] :
        Cardinality({n \in HookNames : h[n] # "none"}) <= MaxHooks}

PolicyContexts == {"ctxAdmin", "ctxAnonymous"}

\* the error a hook throws or rejects with
ErrorOf(hook) == [error |-> "FORBIDDEN", from |-> hook]

InitPipeline ==
    /\ RegistryInit
    /\ inp \in {i \in [hooks : HookConfigs, method : RunMethods,
                      args : [1..1 -> PolicyContexts]
                             \cup {<<c, "doc">> : c \in PolicyContexts}] :
                   Len(i.args) = i.method.arity}
    /\ pc = "run-call"
    /\ res = [invocations |-> <<>>, hook |-> "not-called", outcome |-> [state |-> "pending"]]

\* a plausible slip: the hook called without await
AfterHookCall_NotAwaited(behaviour, hook) ==
    IF behaviour = "throws"
    THEN [pc |-> "run-done", hook |-> "threw",
          outcome |-> [state |-> "rejected", error |-> ErrorOf(hook)]]
    ELSE [pc |-> "run-done",
          hook |-> IF behaviour = "returns" THEN "returned" ELSE "pending",
          outcome |-> [state |-> "fulfilled"]]

\* `await this.hooks.h(...)`: a throw rejects the run's promise, a plain return
\* lets it go on, a promise suspends the run until it is settled
AfterHookCall(behaviour, hook) ==
    CASE behaviour = "throws" ->
             [pc |-> "run-done", hook |-> "threw",
              outcome |-> [state |-> "rejected", error |-> ErrorOf(hook)]]
      [] behaviour = "returns" ->
             [pc |-> "run-done", hook |-> "returned", outcome |-> [state |-> "fulfilled"]]
      [] OTHER ->
             [pc |-> "run-awaiting", hook |-> "pending", outcome |-> [state |-> "pending"]]

\* run*(ctx[, doc]): if (this.hooks.h) await this.hooks.h(ctx[, doc])
RunHook ==
    /\ pc = "run-call"
    /\ IF inp.hooks[inp.method.hook] = "none"
       THEN /\ pc' = "run-done"
            /\ res' = [res EXCEPT !.outcome = [state |-> "fulfilled"]]
       ELSE LET next == AfterHookCall(inp.hooks[inp.method.hook], inp.method.hook)
            IN  /\ pc' = next.pc
                /\ res' = [invocations |->
                               Append(res.invocations,
                                      [hook |-> inp.method.hook,
                                       args |-> SubSeq(inp.args, 1, inp.method.arity)]),
                           hook |-> next.hook,
                           outcome |-> next.outcome]
    /\ UNCHANGED <<registry, inp>>

\* the promise the hook returned is fulfilled or rejected
HookSettles ==
    /\ pc = "run-awaiting"
    /\ res.hook = "pending"
    /\ res' = [res EXCEPT !.hook = IF inp.hooks[inp.method.hook] = "resolves"
                                   THEN "fulfilled" ELSE "rejected"]
    /\ UNCHANGED <<registry, inp, pc>>

\* the run resumes after the await
RunResumes ==
    /\ pc = "run-awaiting"
    /\ res.hook # "pending"
    /\ pc' = "run-done"
    /\ res' = [res EXCEPT !.outcome =
                  IF res.hook = "rejected"
                  THEN [state |-> "rejected", error |-> ErrorOf(inp.method.hook)]
                  ELSE [state |-> "fulfilled"]]
    /\ UNCHANGED <<registry, inp>>

NextPipeline == RunHook \/ HookSettles \/ RunResumes

SpecPipeline == InitPipeline /\ [][NextPipeline]_vars

\* C24: a run* method calls exactly its own hook, once, with the arguments it
\* was given, and no other hook; it completes only after the hook has settled;
\* without the hook it completes without effect; an error of the hook reaches
\* the caller unchanged.
C24_RunIsPassThrough ==
    /\ \A i \in 1..Len(res.invocations) :
           res.invocations[i] = [hook |-> inp.method.hook, args |-> inp.args]
    /\ Len(res.invocations) <= 1
    /\ pc = "run-done" =>
           /\ res.hook # "pending"
           /\ IF inp.hooks[inp.method.hook] = "none"
              THEN res.invocations = <<>> /\ res.outcome = [state |-> "fulfilled"]
              ELSE Len(res.invocations) = 1
           /\ inp.hooks[inp.method.hook] \in {"throws", "rejects"}
                  => res.outcome = [state |-> "rejected", error |-> ErrorOf(inp.method.hook)]
           /\ inp.hooks[inp.method.hook] \in {"returns", "resolves"}
                  => res.outcome = [state |-> "fulfilled"]

\* runAfterCreate completed after its hook's promise was rejected, with another hook configured
C24_Witness ==
    /\ pc = "run-done"
    /\ inp.method.name = "runAfterCreate"
    /\ inp.hooks["afterCreate"] = "rejects"
    /\ inp.hooks["beforeCreate"] = "returns"
    /\ res.hook = "rejected"
    /\ res.invocations = <<[hook |-> "afterCreate", args |-> <<"ctxAdmin", "doc">>]>>

-----------------------------------------------------------------------------
(* The rebuild loop of applyOverrides and setNested on one flat map *)

MaxEntries == 3

FlatPaths == {<<"a">>, <<"a", "b">>, <<"a", "b", "d">>, <<"c">>}

FlatRules ==
    {[type |-> "string", required |-> TRUE], [type |-> "number", required |-> FALSE],
     NewObjectNode}

\* the flat maps of up to MaxEntries entries, in every insertion order
FlatMaps ==
    UNION {{m \in [1..n -> [k : FlatPaths, v : FlatRules]] :
               \A i \in 1..n, j \in 1..n : i # j => m[i].k # m[j].k} : n \in 0..MaxEntries}

RECURSIVE SetNestedEach(_, _, _)
\* setNested(root, path, rule) for every entry in order
SetNestedEach(root, entries, i) ==
    IF i > Len(entries) THEN root
    ELSE SetNestedEach(setNested(root, entries[i].k, entries[i].v), entries, i + 1)

InitRebuild ==
    /\ RegistryInit
    /\ inp \in [entries : FlatMaps]
    /\ pc = "rebuild-call"
    /\ res = [op |-> "none"]

RunRebuild ==
    /\ pc = "rebuild-call"
    /\ res' = [op |-> "rebuild",
               rebuilt |-> Rebuild(inp.entries, 1, {}, NewObjectNode, NewObjectNode, {}),
               nested  |-> SetNestedEach(NewObjectNode, inp.entries, 1)]
    /\ pc' = "rebuild-done"
    /\ UNCHANGED <<registry, inp>>

NextRebuild == RunRebuild

SpecRebuild == InitRebuild /\ [][NextRebuild]_vars

\* C25: for every flat map, the rebuild loop of the Override Engine and
\* setNested of the Introspector, given the entries in the same order, build
\* the same tree, also when one path is a dotted prefix of another.
C25_RebuildMatchesSetNested ==
    pc = "rebuild-done" =>
        /\ res.rebuilt.ok
        /\ res.rebuilt.val = res.nested

-----------------------------------------------------------------------------
(* Trees of the Introspector handed to applyOverrides *)

PTags == <<"tags">>

PProfile == <<"profile">>

\* a schema with an array of strings and an array of subdocuments
TagsSchema ==
    [hasEachPath |-> TRUE,
     paths |-> << [path |-> PUsername,
                   schematype |-> [instance |-> "String", options |-> [required |-> TRUE]]],
                  [path |-> PTags,
                   schematype |-> [instance |-> "Array", options |-> EmptyRecord,
                                   caster |-> [instance |-> "String",
                                               options |-> [minlength |-> 2]]]] >>]

\* a schema with a required single nested subdocument
ProfileSchema ==
    [hasEachPath |-> TRUE,
     paths |-> << [path |-> PUsername,
                   schematype |-> [instance |-> "String", options |-> EmptyRecord]],
                  [path |-> PProfile,
                   schematype |-> [instance |-> "Embedded", options |-> [required |-> TRUE],
                                   schema |-> ItemSchema]] >>]

\* a schema with a nested subdocument whose schema has no paths
EmptyGroupSchema ==
    [hasEachPath |-> TRUE,
     paths |-> << [path |-> PUsername,
                   schematype |-> [instance |-> "String", options |-> EmptyRecord]],
                  [path |-> PProfile,
                   schematype |-> [instance |-> "Embedded", options |-> EmptyRecord,
                                   schema |-> [hasEachPath |-> TRUE, paths |-> <<>>]]] >>]

TreeSchemas == {UserSchema, PrefixSchema, TagsSchema, ProfileSchema, EmptyGroupSchema}

ObjectAppends ==
    {Absent,
     Obj(<<KV(PProfile, [type |-> "object"])>>),
     Obj(<<KV(PProfile, [type |-> "object", children |-> <<>>])>>),
     Obj(<<KV(PPassword, PwMin8)>>)}

TreeOverrides ==
    {MkOverrides(inc, exc, Absent, req, app) :
        inc \in {Absent, Arr(<<PUsername, PTags>>)},
        exc \in {Absent, Arr(<<PStreet>>)},
        req \in {Absent, Arr(<<PTags>>)},
        app \in ObjectAppends}

RECURSIVE NodesBelow(_, _)
\* the nodes of a children map and everything below them, as paths from `prefix`
NodesBelow(children, prefix) ==
    UNION {{prefix \o <<children[i].k>>}
           \cup (IF HasField(children[i].v, "children")
                 THEN NodesBelow(children[i].v.children, prefix \o <<children[i].k>>)
                 ELSE {})
           \cup (IF HasField(children[i].v, "items")
                 THEN {prefix \o <<children[i].k, "[items]">>} ELSE {}) :
           i \in 1..Len(children)}

\* the nodes of the returned tree that are objects of the input tree.  flatten
\* records the input's own nodes (out[path] = child) and `const r = { ...rule }`
\* copies one level: r is new, r.items and r.children are the input's objects.
\* Appended rules, the root and the intermediate nodes are new objects.
SharedNodes(ruleTree, overrides) ==
    LET eb   == EffectiveBase(ruleTree, overrides)
        kept == {i \in 1..Len(eb) : eb[i].k \notin KeySet(AppendEntries(overrides))}
    IN  UNION {(IF HasField(eb[i].v, "items") THEN {eb[i].k \o <<"[items]">>} ELSE {})
               \cup (IF HasField(eb[i].v, "children")
                     THEN NodesBelow(eb[i].v.children, eb[i].k) ELSE {}) : i \in kept}

InitTrees ==
    /\ RegistryInit
    /\ inp \in [schema : TreeSchemas, overrides : TreeOverrides]
    /\ pc = "trees-call"
    /\ res = [op |-> "none"]

RunTrees ==
    /\ pc = "trees-call"
    /\ res' = [op   |-> "applyOverrides",
               tree |-> compileRulesFromMongooseSchema(inp.schema).val,
               run  |-> applyOverridesRun(compileRulesFromMongooseSchema(inp.schema).val,
                                          inp.overrides),
               shared |-> SharedNodes(compileRulesFromMongooseSchema(inp.schema).val,
                                      inp.overrides)]
    /\ pc' = "trees-done"
    /\ UNCHANGED <<registry, inp>>

NextTrees == RunTrees

SpecTrees == InitTrees /\ [][NextTrees]_vars

RECURSIVE ObjectsHaveChildren(_)
\* every node of type object, at any depth, has a children map
ObjectsHaveChildren(node) ==
    /\ node.type = "object" => HasField(node, "children")
    /\ HasField(node, "children") =>
           \A i \in 1..Len(node.children) : ObjectsHaveChildren(node.children[i].v)
    /\ HasField(node, "items") => ObjectsHaveChildren(node.items)

\* C26: every tree of the Introspector and every tree applyOverrides returns
\* has a children map on each node of type object, whatever the overrides,
\* append definitions of type object included.
C26_ObjectNodesHaveChildren ==
    pc = "trees-done" =>
        /\ ObjectsHaveChildren(res.tree)
        /\ res.run.ok => ObjectsHaveChildren(res.run.val)

\* C27: no Rule node reachable from the tree applyOverrides returns (root,
\* intermediate nodes, leaves, items rules and their children) is a node object
\* of the input tree.
C27_OutputSharesNoNode ==
    pc = "trees-done" /\ res.run.ok => res.shared = {}

RECURSIVE Unordered(_)
\* a tree with its children as a set of named subtrees, for a comparison that
\* does not look at key order
Unordered(node) ==
    [f \in DOMAIN node |->
        IF f = "children"
        THEN {[k |-> node.children[i].k, v |-> Unordered(node.children[i].v)] :
                 i \in 1..Len(node.children)}
        ELSE IF f = "items" THEN Unordered(node.items)
        ELSE node[f]]

\* C28: applyOverrides(t, {}) has the paths of t, the Rule of t at every leaf
\* and the flags of t on every interior object node, also for object nodes with
\* an empty children map and for nested object nodes with required = true.
C28_EmptyOverridesIdentity ==
    pc = "trees-done" /\ inp.overrides = <<>> =>
        /\ res.run.ok
        /\ Unordered(res.run.val) = Unordered(res.tree)

-----------------------------------------------------------------------------
(* Failed introspection and the caches *)

\* C29: a buildAjvValidator or emitJsonSchema call whose schema cannot be
\* introspected throws and leaves the RuleTree cache, the wire-schema cache and
\* the validator cache as they were, with no entry and no bucket for that
\* schema; so a later call with the same schema fails again.
C29_FailedCallLeavesCaches ==
    [][(/\ calls' = calls + 1
        /\ last'.op \in {"buildAjvValidator", "emitJsonSchema"}
        /\ last'.schema \in ApiSchemas
        /\ ~Walkable(SchemaOf(last'.schema)))
       => /\ ~last'.ok
          /\ ruleTreeCache' = ruleTreeCache
          /\ jsonSchemaCache' = jsonSchemaCache
          /\ ajvValidatorCache' = ajvValidatorCache
          /\ ~ruleTreeCache'[last'.schema].present
          /\ ~jsonSchemaCache'[last'.schema].present
          /\ ~ajvValidatorCache'[last'.schema].present]_vars

\* the schema whose nested schema cannot be walked was given to two calls, both
\* of which walked it and failed
C29_Witness ==
    /\ calls = 2
    /\ walks["brokenItemsSchema"] = 2
    /\ last.op \in {"buildAjvValidator", "emitJsonSchema"}
    /\ last.schema = "brokenItemsSchema"
    /\ ~last.ok
    /\ ~ruleTreeCache["brokenItemsSchema"].present

====
